---------------------------- MODULE Spec2Model ----------------------------
(***************************************************************************)
(* Model of hatena-bookmark-mcp: the get_hatena_bookmarks tool call        *)
(* (handleGetBookmarks -> BookmarkService.GetBookmarks -> RSSParser) and   *)
(* the helper packages it ships with (utils.Validator, utils.Cache).       *)
(*                                                                         *)
(* Strings are sequences of one-character strings, so that trimming,       *)
(* length limits, character classes and substring tests are computed as    *)
(* the Go code computes them.                                              *)
(***************************************************************************)
EXTENDS Integers, Sequences, FiniteSets, TLC

VARIABLES
    pc,          \* position of the tool call inside handleGetBookmarks/GetBookmarks
    params,      \* types.GetHatenaBookmarksParams of the call
    requestURL,  \* result of buildRequestURL
    httpGets,    \* number of client.Do calls issued by the current call
    xmlContent,  \* body returned by fetchRSSFeed / input of ParseRSSFeed
    parsedData,  \* result of ParseRSSFeed
    response,    \* *types.GetHatenaBookmarksResponse returned by GetBookmarks
    err,         \* error returned by GetBookmarks
    toolResult,  \* *mcp.CallToolResultFor returned by handleGetBookmarks
    stages,      \* stages of GetBookmarks run so far by the current call
    dialect,     \* the parser ParseRSSFeed routed the document to
    log,         \* warnings the parser logged during the current call
    now,         \* time.Now(), in abstract seconds
    entries,     \* Cache.entries: key -> CacheEntry
    got,         \* what the last Cache.Get returned, for which key and when
    lastSet,     \* history: per key, the last Set not yet undone by Delete or Clear
    mutex,       \* Cache.mutex, a sync.RWMutex: readers holding it, writer holding it
    inside,      \* per goroutine, the Cache method it is in with the lock held
    lastGet,     \* history: the user and the time of the last GET sent upstream
    lastOK       \* history: the query of the last call that succeeded, and when it was sent

vars == <<pc, params, requestURL, httpGets, xmlContent, parsedData, response,
          err, toolResult, stages, dialect, log, now, entries, got, lastSet,
          mutex, inside, lastGet, lastOK>>

\* the variables of the cache
cacheVars == <<entries, got, lastSet, mutex, inside>>

\* the variables of the tool call, but for the query
callVars == <<pc, requestURL, httpGets, xmlContent, parsedData, response,
              err, toolResult, stages, dialect, log>>

\* the goroutines that use the cache: two requests in flight and the sweep
\* started by NewCache
Goroutines == {"request1", "request2", "cleanup"}

----------------------------------------------------------------------------
(* Bounds of the model *)

MaxItems == 2        \* items per feed document
MaxSubjects == 3     \* dc:subject elements per syndication item
MaxTime == 2         \* the clock stops advancing here

(* Program constants *)

MaxUsernameLen == 50
MaxTagLen == 100
MaxURLLen == 2000
MaxPage == 10000
MinYear == 1900
StatusOK == 200
FiveMinutes == 300   \* seconds
MaxCommentLen == 500
NowYear == 2024      \* time.Now().Year()

----------------------------------------------------------------------------
(* Strings *)

LowerSeq == <<"a","b","c","d","e","f","g","h","i","j","k","l","m",
              "n","o","p","q","r","s","t","u","v","w","x","y","z">>
UpperSeq == <<"A","B","C","D","E","F","G","H","I","J","K","L","M",
              "N","O","P","Q","R","S","T","U","V","W","X","Y","Z">>
DigitSeq == <<"0","1","2","3","4","5","6","7","8","9">>

Range(s) == {s[i] : i \in DOMAIN s}
LowerChars == Range(LowerSeq)
UpperChars == Range(UpperSeq)
DigitChars == Range(DigitSeq)
SpaceChars == {" ", "\t", "\n", "\r"}

SetMin(S) == CHOOSE x \in S : \A y \in S : x <= y
SetMax(S) == CHOOSE x \in S : \A y \in S : x >= y

Repeat(c, n) == [i \in 1..n |-> c]

\* The value of the one-element set S.  An operator's arguments and LET
\* definitions are re-evaluated at every use; a bound variable holds a value.
\* TheOne({ F(x) : x \in {e} }) therefore evaluates e once, as the Go code does
\* when it assigns e to a local variable.
TheOne(S) == CHOOSE v \in S : TRUE

\* A character outside ASCII is written by its code point; this one takes three
\* bytes in UTF-8.
KanaA == "U+3042"

\* len(s): Go counts the bytes of the UTF-8 encoding
ByteLen(s) == Len(s) + 2 * Cardinality({i \in 1..Len(s) : s[i] = KanaA})

\* strings.TrimSpace
TrimSpace(s) ==
    LET keep == {i \in 1..Len(s) : s[i] \notin SpaceChars}
    IN  IF keep = {} THEN <<>> ELSE SubSeq(s, SetMin(keep), SetMax(keep))

\* strings.Index for a one-character needle; 0 when absent
IndexOf(s, c) ==
    LET at == {i \in 1..Len(s) : s[i] = c}
    IN  IF at = {} THEN 0 ELSE SetMin(at)

\* strings.LastIndex for a one-character needle; 0 when absent
LastIndexOf(s, c) ==
    LET at == {i \in 1..Len(s) : s[i] = c}
    IN  IF at = {} THEN 0 ELSE SetMax(at)

\* strings.Contains for a one-character needle
ContainsChar(s, c) == \E i \in 1..Len(s) : s[i] = c

\* strings.HasPrefix
HasPrefix(s, p) == Len(s) >= Len(p) /\ SubSeq(s, 1, Len(p)) = p

\* s[i:] and s[:i] with Go's 0-based half-open indices
From(s, i) == SubSeq(s, i + 1, Len(s))
Upto(s, i) == SubSeq(s, 1, i)

ToLowerChar(c) ==
    IF c \in UpperChars
    THEN LowerSeq[CHOOSE i \in 1..26 : UpperSeq[i] = c]
    ELSE c

ToLower(s) == [i \in 1..Len(s) |-> ToLowerChar(s[i])]

\* strconv.Atoi on a string of ASCII digits
DigitVal(c) == (CHOOSE i \in 1..10 : DigitSeq[i] = c) - 1

RECURSIVE Atoi(_)
Atoi(s) == IF s = <<>> THEN 0
           ELSE 10 * Atoi(Upto(s, Len(s) - 1)) + DigitVal(s[Len(s)])

----------------------------------------------------------------------------
(* net/url.Parse, as far as isValidURL and ValidateURL read its result:    *)
(* whether it fails, the scheme and the host.                              *)

CTLChars == {"\t", "\n", "\r"}

\* characters url.parseHost accepts unescaped in a host
HostChars == LowerChars \cup UpperChars \cup DigitChars \cup
             {"-", "_", ".", "~", "!", "$", "&", "'", "(", ")", "*", "+",
              ",", ";", "=", ":", "[", "]", "<", ">", "\""}

\* url.getScheme: [err, scheme, rest]
getScheme(raw) ==
    LET stop == {i \in 1..Len(raw) :
                   ~ (\/ raw[i] \in LowerChars \cup UpperChars
                      \/ (i > 1 /\ raw[i] \in DigitChars \cup {"+", "-", "."}))}
    IN  IF stop = {} THEN [err |-> FALSE, scheme |-> <<>>, rest |-> raw]
        ELSE LET i == SetMin(stop)
             IN  IF raw[i] # ":" THEN [err |-> FALSE, scheme |-> <<>>, rest |-> raw]
                 ELSE IF i = 1 THEN [err |-> TRUE, scheme |-> <<>>, rest |-> raw]
                 ELSE [err |-> FALSE, scheme |-> Upto(raw, i - 1), rest |-> From(raw, i)]

\* url.validOptionalPort
validOptionalPort(port) ==
    \/ port = <<>>
    \/ /\ port[1] = ":"
       /\ \A i \in 2..Len(port) : port[i] \in DigitChars

\* url.parseHost: [err, host]
parseHost(host) ==
    LET colon == LastIndexOf(host, ":")
    IN  IF HasPrefix(host, <<"[">>)
        THEN LET close == LastIndexOf(host, "]")
             IN  IF close = 0 \/ ~ validOptionalPort(From(host, close))
                 THEN [err |-> TRUE, host |-> <<>>]
                 ELSE [err |-> FALSE, host |-> host]
        ELSE IF colon # 0 /\ ~ validOptionalPort(From(host, colon - 1))
        THEN [err |-> TRUE, host |-> <<>>]
        ELSE IF \E i \in 1..Len(host) : host[i] \notin HostChars
        THEN [err |-> TRUE, host |-> <<>>]
        ELSE [err |-> FALSE, host |-> host]

\* s[:i] for the first index i of c in s, or s when c does not occur
Before(s, c) == IF IndexOf(s, c) = 0 THEN s ELSE Upto(s, IndexOf(s, c) - 1)

\* url.parseAuthority: the host after the last '@'
parseAuthority(authority) ==
    TheOne({ parseHost(h) : h \in {From(authority, LastIndexOf(authority, "@"))} })

URLFail == [err |-> TRUE, Scheme |-> <<>>, Host |-> <<>>]

\* url.parse once the scheme and the query are cut off: [err, Scheme, Host]
URLParseRest(scheme, rest) ==
    IF ~ HasPrefix(rest, <<"/">>)
    THEN IF scheme # <<>>
         THEN [err |-> FALSE, Scheme |-> scheme, Host |-> <<>>]    \* opaque URL
         ELSE IF ContainsChar(Before(rest, "/"), ":")
         THEN URLFail                             \* colon in the first path segment
         ELSE [err |-> FALSE, Scheme |-> scheme, Host |-> <<>>]
    ELSE IF /\ (scheme # <<>> \/ ~ HasPrefix(rest, <<"/", "/", "/">>))
            /\ HasPrefix(rest, <<"/", "/">>)
    THEN TheOne({ IF h.err THEN URLFail
                  ELSE [err |-> FALSE, Scheme |-> scheme, Host |-> h.host] :
                  h \in { TheOne({ parseAuthority(auth) :
                                   auth \in {Before(From(rest, 2), "/")} }) } })
    ELSE [err |-> FALSE, Scheme |-> scheme, Host |-> <<>>]

\* url.parse: [err, Scheme, Host]
URLParseNoFragment(u) ==
    IF \E i \in 1..Len(u) : u[i] \in CTLChars THEN URLFail
    ELSE IF u = <<"*">> THEN [err |-> FALSE, Scheme |-> <<>>, Host |-> <<>>]
    ELSE TheOne({ IF sch.err THEN URLFail
                  ELSE TheOne({ URLParseRest(scheme, rest) :
                                scheme \in {ToLower(sch.scheme)},
                                rest \in {Before(sch.rest, "?")} }) :
                  sch \in {getScheme(u)} })

\* url.Parse: [err, Scheme, Host]
URLParse(rawURL) ==
    TheOne({ URLParseNoFragment(u) : u \in {Before(rawURL, "#")} })

----------------------------------------------------------------------------
(* Errors: *types.MCPError *)

ErrorCodeValidation == "VALIDATION_ERROR"
ErrorCodeNetwork    == "NETWORK_ERROR"
ErrorCodeParsing    == "PARSING_ERROR"
ErrorCodeAPI        == "API_ERROR"

ErrorCodes == {ErrorCodeValidation, ErrorCodeNetwork, ErrorCodeParsing, ErrorCodeAPI}

\* A Go pointer is a sequence of length <= 1: <<>> is nil, <<v>> points to v.
NilPtr == <<>>
Ptr(v) == <<v>>
IsNil(p) == p = <<>>
Deref(p) == p[1]

\* &types.MCPError{Code: code, Message: message, Details: details}
MCPError(code, message, details) ==
    [Code |-> code, Message |-> message, Details |-> details]

----------------------------------------------------------------------------
(* internal/service: validation helpers of BookmarkService *)

\* the mutant accepts every non-empty username
isValidUsernameAny(username) == ByteLen(username) > 0

isValidUsername(username) ==
    /\ \A i \in 1..Len(username) :
          ~ (/\ username[i] \notin LowerChars
             /\ username[i] \notin UpperChars
             /\ username[i] \notin DigitChars
             /\ username[i] # "-")
    /\ ByteLen(username) > 0

isValidDateFormat(date) ==
    /\ ByteLen(date) = 8
    /\ \A i \in 1..Len(date) : date[i] \in DigitChars

isValidURL(urlStr) ==
    \E u \in {URLParse(urlStr)} : ~ u.err /\ u.Scheme # <<>> /\ u.Host # <<>>

\* BookmarkService.validateParams: nil, or the first violation found
validateParams(p) ==
    IF TrimSpace(p.Username) = <<>>
    THEN Ptr(MCPError(ErrorCodeValidation, "Username is required",
                          [field |-> "username"]))
    ELSE IF ~ isValidUsername(p.Username)
    THEN Ptr(MCPError(ErrorCodeValidation, "Username must contain only alphanumeric characters and hyphens",
                          [username |-> p.Username]))
    ELSE IF p.Date # <<>> /\ ~ isValidDateFormat(p.Date)
    THEN Ptr(MCPError(ErrorCodeValidation, "Date must be in YYYYMMDD format",
                          [date |-> p.Date]))
    ELSE IF p.URL # <<>> /\ ~ isValidURL(p.URL)
    THEN Ptr(MCPError(ErrorCodeValidation, "Invalid URL format",
                          [url |-> p.URL]))
    ELSE IF p.Page < 0
    THEN Ptr(MCPError(ErrorCodeValidation, "Page number must be positive",
                          [page |-> p.Page]))
    ELSE NilPtr

----------------------------------------------------------------------------
(* internal/utils: Validator *)

IsLeap(y) == (y % 4 = 0 /\ y % 100 # 0) \/ y % 400 = 0

DaysIn(m, y) ==
    IF m = 2 THEN (IF IsLeap(y) THEN 29 ELSE 28)
    ELSE IF m \in {4, 6, 9, 11} THEN 30 ELSE 31

\* the mutant only asks for a non-blank username
ValidateUsernameAny(raw) ==
    IF TrimSpace(raw) = <<>>
    THEN Ptr(MCPError(ErrorCodeValidation, "Username is required",
                      [field |-> "username"]))
    ELSE NilPtr

\* Validator.ValidateUsername
ValidateUsername(raw) ==
    LET username == TrimSpace(raw)
    IN  IF username = <<>>
        THEN Ptr(MCPError(ErrorCodeValidation, "Username is required",
                          [field |-> "username"]))
        ELSE IF ByteLen(username) > MaxUsernameLen
        THEN Ptr(MCPError(ErrorCodeValidation, "Username must be 50 characters or less",
                          [username |-> username, length |-> ByteLen(username)]))
        ELSE IF ~ \A i \in 1..Len(username) :
                    username[i] \in LowerChars \cup UpperChars \cup DigitChars \cup {"-"}
        THEN Ptr(MCPError(ErrorCodeValidation, "Username must contain only alphanumeric characters and hyphens",
                          [username |-> username]))
        ELSE NilPtr

invalidChars == <<"<", ">", "\"", "'", "&">>

\* Validator.ValidateTag
ValidateTag(raw) ==
    LET tag == TrimSpace(raw)
        hit == {i \in 1..Len(invalidChars) : ContainsChar(tag, invalidChars[i])}
    IN  IF ByteLen(tag) > MaxTagLen
        THEN Ptr(MCPError(ErrorCodeValidation, "Tag must be 100 characters or less",
                          [tag |-> tag, length |-> ByteLen(tag)]))
        ELSE IF hit # {}
        THEN Ptr(MCPError(ErrorCodeValidation, "Tag contains invalid characters",
                          [tag |-> tag, invalid_char |-> invalidChars[SetMin(hit)]]))
        ELSE NilPtr

\* the mutant only checks that the date is eight digits
ValidateDateFormatOnly(raw) ==
    IF isValidDateFormat(TrimSpace(raw))
    THEN NilPtr
    ELSE Ptr(MCPError(ErrorCodeValidation, "Date must be in YYYYMMDD format",
                      [date |-> TrimSpace(raw), expected_format |-> "YYYYMMDD"]))

\* Validator.ValidateDate
ValidateDate(raw) ==
    LET date  == TrimSpace(raw)
        year  == Atoi(SubSeq(date, 1, 4))
        month == Atoi(SubSeq(date, 5, 6))
        day   == Atoi(SubSeq(date, 7, 8))
    IN  IF ByteLen(date) # 8
        THEN Ptr(MCPError(ErrorCodeValidation, "Date must be in YYYYMMDD format",
                          [date |-> date, expected_format |-> "YYYYMMDD"]))
        ELSE IF \E i \in 1..Len(date) : date[i] \notin DigitChars
        THEN Ptr(MCPError(ErrorCodeValidation, "Date must contain only numeric characters",
                          [date |-> date]))
        ELSE IF year < MinYear \/ year > NowYear + 1
        THEN Ptr(MCPError(ErrorCodeValidation, "Invalid year in date",
                          [date |-> date, year |-> year]))
        ELSE IF month < 1 \/ month > 12
        THEN Ptr(MCPError(ErrorCodeValidation, "Invalid month in date",
                          [date |-> date, month |-> month]))
        ELSE IF day < 1 \/ day > 31
        THEN Ptr(MCPError(ErrorCodeValidation, "Invalid day in date",
                          [date |-> date, day |-> day]))
        ELSE IF day > DaysIn(month, year)       \* time.Parse("20060102", date)
        THEN Ptr(MCPError(ErrorCodeValidation, "Invalid date",
                          [date |-> date, error |-> "out of range"]))
        ELSE NilPtr

\* the mutant accepts every scheme
ValidateURLAnyScheme(raw) ==
    IF ByteLen(TrimSpace(raw)) <= MaxURLLen /\ isValidURL(TrimSpace(raw))
    THEN NilPtr
    ELSE Ptr(MCPError(ErrorCodeValidation, "Invalid URL format",
                      [url |-> TrimSpace(raw)]))

\* Validator.ValidateURL
ValidateURL(raw) ==
    LET urlStr == TrimSpace(raw)
        u      == URLParse(urlStr)
    IN  IF ByteLen(urlStr) > MaxURLLen
        THEN Ptr(MCPError(ErrorCodeValidation, "URL must be 2000 characters or less",
                          [url |-> urlStr, length |-> ByteLen(urlStr)]))
        ELSE IF u.err
        THEN Ptr(MCPError(ErrorCodeValidation, "Invalid URL format",
                          [url |-> urlStr, error |-> "parse"]))
        ELSE IF u.Scheme = <<>>
        THEN Ptr(MCPError(ErrorCodeValidation,
                          "URL must include scheme (http:// or https://)",
                          [url |-> urlStr]))
        ELSE IF u.Host = <<>>
        THEN Ptr(MCPError(ErrorCodeValidation, "URL must include host",
                          [url |-> urlStr]))
        ELSE IF u.Scheme # <<"h","t","t","p">> /\ u.Scheme # <<"h","t","t","p","s">>
        THEN Ptr(MCPError(ErrorCodeValidation, "URL scheme must be http or https",
                          [url |-> urlStr, scheme |-> u.Scheme]))
        ELSE NilPtr

\* Validator.ValidatePage
ValidatePage(page) ==
    IF page < 0
    THEN Ptr(MCPError(ErrorCodeValidation, "Page number must be positive",
                      [page |-> page]))
    ELSE IF page > MaxPage
    THEN Ptr(MCPError(ErrorCodeValidation,
                      "Page number is too large (maximum: 10000)", [page |-> page]))
    ELSE NilPtr

\* Validator.ValidateGetBookmarksParams
ValidateGetBookmarksParams(p) ==
    IF ~ IsNil(ValidateUsername(p.Username)) THEN ValidateUsername(p.Username)
    ELSE IF p.Tag # <<>> /\ ~ IsNil(ValidateTag(p.Tag)) THEN ValidateTag(p.Tag)
    ELSE IF p.Date # <<>> /\ ~ IsNil(ValidateDate(p.Date)) THEN ValidateDate(p.Date)
    ELSE IF p.URL # <<>> /\ ~ IsNil(ValidateURL(p.URL)) THEN ValidateURL(p.URL)
    ELSE ValidatePage(p.Page)

----------------------------------------------------------------------------
(* Timestamps.  A date string is [form, t, zone, frac]: the layout it is   *)
(* written in, the instant it names (seconds), how its zone is spelled and *)
(* whether it carries fractional seconds.  time.Parse(layout, s) succeeds  *)
(* exactly when s is written in a form the layout accepts;                 *)
(* t.Format(time.RFC3339) writes form RFC3339, whole seconds, and spells a *)
(* zero offset "Z".                                                        *)

EmptyDate == [form |-> "empty", t |-> 0, zone |-> "", frac |-> 0]

LocalZone == "+09:00"

\* time.Time.Format(time.RFC3339) of the instant t in the zone spelled zone
FormatRFC3339(t, zone) ==
    [form |-> "RFC3339", t |-> t,
     zone |-> IF zone \in {"", "Z", "+00:00"} THEN "Z" ELSE zone,
     frac |-> 0]

\* time.Now().Format(time.RFC3339)
NowRFC3339(clock) == FormatRFC3339(clock, LocalZone)

\* does time.Parse(layout, d) succeed
Accepts(layout, d) ==
    CASE layout = "RFC1123"      -> d.form = "RFC1123"
      [] layout = "RFC1123Z"     -> d.form = "RFC1123Z"
      [] layout = "RFC822"       -> d.form = "RFC822"
      [] layout = "RFC822Z"      -> d.form = "RFC822Z"
      [] layout = "RFC3339"      -> d.form = "RFC3339"
      [] layout = "RFC3339Nano"  -> d.form = "RFC3339"
      [] layout = "2006-01-02T15:04:05Z" -> d.form = "RFC3339" /\ d.zone = "Z"
      [] layout = "2006-01-02T15:04:05"  -> d.form = "ISOnoTZ"
      [] layout = "2006-01-02 15:04:05"  -> d.form = "bare"
      [] OTHER -> FALSE

\* the loop "for _, format := range formats": the first layout that parses
FirstMatch(formats, d) ==
    LET ok == {i \in 1..Len(formats) : Accepts(formats[i], d)}
    IN  IF ok = {} THEN 0 ELSE SetMin(ok)

----------------------------------------------------------------------------
(* internal/parser: RSSParser *)

WarnDate     == "Could not parse date, using current time"
WarnPubDate  == "Failed to parse date"
WarnRDFDate  == "Failed to parse RDF date"
WarnItem     == "Failed to convert RSS item to bookmark"
WarnRDFItem  == "Failed to convert RDF item to bookmark"

parseDateFormats ==
    <<"RFC1123", "RFC1123Z", "RFC822", "RFC822Z", "RFC3339", "2006-01-02 15:04:05">>

parseRDFDateFormats ==
    <<"RFC3339", "RFC3339Nano", "2006-01-02T15:04:05Z", "2006-01-02T15:04:05",
      "2006-01-02 15:04:05">>

\* the mutant treats an empty date as one it could not parse
parseDateWarnsEmpty(dateString, clock) ==
    IF dateString # EmptyDate /\ FirstMatch(parseDateFormats, dateString) # 0
    THEN [value |-> FormatRFC3339(dateString.t, dateString.zone),
          err |-> FALSE, log |-> {}]
    ELSE [value |-> NowRFC3339(clock), err |-> TRUE, log |-> {WarnDate}]

\* the mutant returns the source string when no layout matches
parseDateRaw(dateString, clock) ==
    IF dateString = EmptyDate
    THEN [value |-> NowRFC3339(clock), err |-> FALSE, log |-> {}]
    ELSE IF FirstMatch(parseDateFormats, dateString) # 0
    THEN [value |-> FormatRFC3339(dateString.t, dateString.zone),
          err |-> FALSE, log |-> {}]
    ELSE [value |-> dateString, err |-> FALSE, log |-> {WarnDate}]

\* RSSParser.parseDate: [value, err, log]
parseDate(dateString, clock) ==
    IF dateString = EmptyDate
    THEN [value |-> NowRFC3339(clock), err |-> FALSE, log |-> {}]
    ELSE IF FirstMatch(parseDateFormats, dateString) # 0
    THEN [value |-> FormatRFC3339(dateString.t, dateString.zone),
          err |-> FALSE, log |-> {}]
    ELSE [value |-> NowRFC3339(clock), err |-> TRUE, log |-> {WarnDate}]

\* RSSParser.parseRDFDate: [value, err, log]
parseRDFDate(dateString, clock) ==
    IF dateString = EmptyDate
    THEN [value |-> NowRFC3339(clock), err |-> FALSE, log |-> {}]
    ELSE IF FirstMatch(parseRDFDateFormats, dateString) # 0
    THEN [value |-> FormatRFC3339(dateString.t, dateString.zone),
          err |-> FALSE, log |-> {}]
    ELSE parseDate(dateString, clock)

\* the mutant keeps every trimmed subject, empty or not
extractTagsKeepEmpty(subjects) ==
    [i \in 1..Len(subjects) |-> TrimSpace(subjects[i])]

\* RSSParser.extractTags
RECURSIVE extractTags(_)
extractTags(subjects) ==
    IF subjects = <<>> THEN <<>>
    ELSE LET tag  == TrimSpace(Head(subjects))
             rest == extractTags(Tail(subjects))
         IN  IF tag # <<>> THEN <<tag>> \o rest ELSE rest

\* RSSParser.stripHTMLTags: regexp `<[^>]*>` replaced by "" from left to right.
\* The leftmost match starts at the first "<" and ends at the first ">" after
\* it; when no ">" follows the first "<", nothing matches.
RECURSIVE stripHTMLTags(_)
stripHTMLTags(text) ==
    IF ~ ContainsChar(text, "<") THEN text
    ELSE TheOne({ IF ~ ContainsChar(From(text, lt), ">") THEN text
                  ELSE Upto(text, lt - 1) \o
                       stripHTMLTags(From(text, lt + IndexOf(From(text, lt), ">"))) :
                  lt \in {IndexOf(text, "<")} })

\* the mutant never discards a long text
extractCommentNoLimit(description) == TrimSpace(stripHTMLTags(description))

\* RSSParser.extractComment
extractComment(description) ==
    LET comment == TrimSpace(stripHTMLTags(description))
    IN  IF ByteLen(comment) > MaxCommentLen THEN <<>> ELSE comment

\* RSSParser.convertItemToBookmark: [bookmark, err, log]
convertItemToBookmark(item, clock) ==
    LET d == parseDate(item.PubDate, clock)
    IN  [bookmark |->
            [Title        |-> TrimSpace(item.Title),
             URL          |-> TrimSpace(item.Link),
             BookmarkedAt |-> IF d.err THEN NowRFC3339(clock) ELSE d.value,
             Tags         |-> extractTags(item.Subjects),
             Comment      |-> extractComment(item.Description)],
         err |-> FALSE,
         log |-> d.log \cup (IF d.err THEN {WarnPubDate} ELSE {})]

\* the mutant drops the subject test and always emits one tag
convertRDFItemToBookmarkAlwaysTag(item, clock) ==
    LET d == parseRDFDate(item.Date, clock)
        c == extractComment(item.Description)
    IN  [bookmark |->
            [Title        |-> TrimSpace(item.Title),
             URL          |-> TrimSpace(item.Link),
             BookmarkedAt |-> IF d.err THEN NowRFC3339(clock) ELSE d.value,
             Tags         |-> <<TrimSpace(item.Subject)>>,
             Comment      |-> IF c = <<>> /\ item.ContentEncoded # <<>>
                              THEN extractComment(item.ContentEncoded) ELSE c],
         err |-> FALSE,
         log |-> d.log \cup (IF d.err THEN {WarnRDFDate} ELSE {})]

\* RSSParser.convertRDFItemToBookmark: [bookmark, err, log]
convertRDFItemToBookmark(item, clock) ==
    LET d == parseRDFDate(item.Date, clock)
        c == extractComment(item.Description)
    IN  [bookmark |->
            [Title        |-> TrimSpace(item.Title),
             URL          |-> TrimSpace(item.Link),
             BookmarkedAt |-> IF d.err THEN NowRFC3339(clock) ELSE d.value,
             Tags         |-> IF item.Subject # <<>>
                              THEN <<TrimSpace(item.Subject)>> ELSE <<>>,
             Comment      |-> IF c = <<>> /\ item.ContentEncoded # <<>>
                              THEN extractComment(item.ContentEncoded) ELSE c],
         err |-> FALSE,
         log |-> d.log \cup (IF d.err THEN {WarnRDFDate} ELSE {})]

\* RSSParser.extractBookmarkItems: [bookmarks, log]
RECURSIVE extractBookmarkItems(_, _)
extractBookmarkItems(items, clock) ==
    IF items = <<>> THEN [bookmarks |-> <<>>, log |-> {}]
    ELSE TheOne({ IF c.err
                  THEN [bookmarks |-> rest.bookmarks,
                        log |-> c.log \cup {WarnItem} \cup rest.log]
                  ELSE [bookmarks |-> <<c.bookmark>> \o rest.bookmarks,
                        log |-> c.log \cup rest.log] :
                  c \in {convertItemToBookmark(Head(items), clock)},
                  rest \in {extractBookmarkItems(Tail(items), clock)} })

\* RSSParser.extractRDFBookmarkItems: [bookmarks, log]
RECURSIVE extractRDFBookmarkItems(_, _)
extractRDFBookmarkItems(items, clock) ==
    IF items = <<>> THEN [bookmarks |-> <<>>, log |-> {}]
    ELSE TheOne({ IF c.err
                  THEN [bookmarks |-> rest.bookmarks,
                        log |-> c.log \cup {WarnRDFItem} \cup rest.log]
                  ELSE [bookmarks |-> <<c.bookmark>> \o rest.bookmarks,
                        log |-> c.log \cup rest.log] :
                  c \in {convertRDFItemToBookmark(Head(items), clock)},
                  rest \in {extractRDFBookmarkItems(Tail(items), clock)} })

----------------------------------------------------------------------------
(* Feed documents.  xmlContent is described by what its bytes contain:     *)
(*   syntax     whether the bytes are well-formed XML                      *)
(*   rootPrefix, rootLocal   the root element's qualified name            *)
(*   xmlns      the prefixes ("" is the default namespace) the root binds  *)
(*              to the RDF syntax namespace by an xmlns declaration        *)
(*   cdata      whether character data (a CDATA section) holds the text    *)
(*              "<rdf:RDF"                                                 *)
(*   size       len(xmlContent)                                            *)
(*   title, items   the channel title and the item elements in order; an   *)
(*              item of an <rss> document has the children of types.Item,  *)
(*              an item of an <RDF> document those of types.RDFItem.        *)

RDFNamespace == "http://www.w3.org/1999/02/22-rdf-syntax-ns#"

\* strings.Contains(string(xmlContent), marker)
ContainsMarker(doc, marker) ==
    CASE marker = "<rdf:RDF"  -> \/ (doc.rootPrefix = "rdf" /\ doc.rootLocal = "RDF")
                                 \/ doc.cdata
      [] marker = "xmlns:rdf" -> "rdf" \in doc.xmlns
      [] OTHER -> FALSE

\* the namespace encoding/xml resolves for the root element: an undeclared
\* prefix is left as the name space
RootSpace(doc) ==
    IF doc.rootPrefix \in doc.xmlns THEN RDFNamespace ELSE doc.rootPrefix

\* encoding/xml copyValue into an int field: empty text is 0, anything else
\* must be a decimal integer once trimmed
IntFieldOK(text) ==
    LET t == TrimSpace(text)
    IN  \/ text = <<>>
        \/ /\ t # <<>>
           /\ \A i \in 1..Len(t) : t[i] \in DigitChars

\* xml.Unmarshal(xmlContent, &rss) for types.RSS: [err, Title, Items]
UnmarshalRSS(doc) ==
    IF ~ doc.syntax \/ doc.rootLocal # "rss"
    THEN [err |-> TRUE, Title |-> <<>>, Items |-> <<>>]
    ELSE [err |-> FALSE, Title |-> doc.title, Items |-> doc.items]

\* xml.Unmarshal(xmlContent, &rdf) for types.RDF: [err, Title, Items]
UnmarshalRDF(doc) ==
    IF \/ ~ doc.syntax
       \/ doc.rootLocal # "RDF"
       \/ RootSpace(doc) # RDFNamespace
       \/ \E i \in 1..Len(doc.items) : ~ IntFieldOK(doc.items[i].BookmarkCount)
    THEN [err |-> TRUE, Title |-> <<>>, Items |-> <<>>]
    ELSE [err |-> FALSE, Title |-> doc.title, Items |-> doc.items]

\* the mutant only looks for the root tag
isRDFFormatRootOnly(doc) == ContainsMarker(doc, "<rdf:RDF")

\* RSSParser.isRDFFormat
isRDFFormat(doc) ==
    ContainsMarker(doc, "<rdf:RDF") \/ ContainsMarker(doc, "xmlns:rdf")

\* RSSParser.parseRSS2Feed: [data, err, parser, log]
parseRSS2Feed(doc, clock) ==
    TheOne({ IF rss.err
             THEN [data |-> NilPtr,
                   err  |-> Ptr(MCPError(ErrorCodeParsing, "Failed to parse RSS XML",
                                         [xml_length |-> doc.size])),
                   parser |-> "rss2", log |-> {}]
             ELSE TheOne({ [data |-> Ptr([Title |-> rss.Title, Items |-> ex.bookmarks,
                                          ItemCount |-> Len(ex.bookmarks)]),
                            err  |-> NilPtr, parser |-> "rss2", log |-> ex.log] :
                           ex \in {extractBookmarkItems(rss.Items, clock)} }) :
             rss \in {UnmarshalRSS(doc)} })

\* RSSParser.parseRDFFeed: [data, err, parser, log]
parseRDFFeed(doc, clock) ==
    TheOne({ IF rdf.err
             THEN [data |-> NilPtr,
                   err  |-> Ptr(MCPError(ErrorCodeParsing, "Failed to parse RDF XML",
                                         [xml_length |-> doc.size])),
                   parser |-> "rdf", log |-> {}]
             ELSE TheOne({ [data |-> Ptr([Title |-> rdf.Title, Items |-> ex.bookmarks,
                                          ItemCount |-> Len(ex.bookmarks)]),
                            err  |-> NilPtr, parser |-> "rdf", log |-> ex.log] :
                           ex \in {extractRDFBookmarkItems(rdf.Items, clock)} }) :
             rdf \in {UnmarshalRDF(doc)} })

\* RSSParser.ParseRSSFeed
ParseRSSFeed(doc, clock) ==
    IF isRDFFormat(doc) THEN parseRDFFeed(doc, clock) ELSE parseRSS2Feed(doc, clock)

----------------------------------------------------------------------------
(* internal/service: BookmarkService *)

baseURL == <<"h","t","t","p","s",":","/","/","b",".","h","a","t","e","n","a",".","n","e",".","j","p">>

\* strconv.Itoa for a non-negative number
RECURSIVE Itoa(_)
Itoa(n) == IF n < 10 THEN <<DigitSeq[n + 1]>>
           ELSE Itoa(n \div 10) \o <<DigitSeq[(n % 10) + 1]>>

\* the ASCII code, in hexadecimal, of the characters url.QueryEscape escapes
HexCodes ==
    <<<<" ", "2", "0">>, <<"!", "2", "1">>, <<"\"", "2", "2">>,
      <<"#", "2", "3">>, <<"$", "2", "4">>, <<"%", "2", "5">>,
      <<"&", "2", "6">>, <<"'", "2", "7">>, <<"(", "2", "8">>,
      <<")", "2", "9">>, <<"*", "2", "A">>, <<"+", "2", "B">>,
      <<",", "2", "C">>, <<"/", "2", "F">>, <<":", "3", "A">>,
      <<";", "3", "B">>, <<"<", "3", "C">>, <<"=", "3", "D">>,
      <<">", "3", "E">>, <<"?", "3", "F">>, <<"@", "4", "0">>,
      <<"[", "5", "B">>, <<"]", "5", "D">>, <<"^", "5", "E">>,
      <<"{", "7", "B">>, <<"|", "7", "C">>, <<"}", "7", "D">> >>

\* url.QueryEscape of one character
EscapeChar(c) ==
    IF c \in LowerChars \cup UpperChars \cup DigitChars \cup {"-", "_", ".", "~"}
    THEN <<c>>
    ELSE IF c = " " THEN <<"+">>
    ELSE LET row == HexCodes[CHOOSE i \in 1..Len(HexCodes) : HexCodes[i][1] = c]
         IN  <<"%", row[2], row[3]>>

\* the mutant writes the value into the query as it is
QueryEscapeNone(s) == s

\* url.QueryEscape
RECURSIVE QueryEscape(_)
QueryEscape(s) ==
    IF s = <<>> THEN <<>> ELSE EscapeChar(Head(s)) \o QueryEscape(Tail(s))

\* url.Values.Encode for the keys buildRequestURL sets: sorted by key, "k=v"
\* joined by "&"; pairs is the sequence of <<key, value>> already in key order
RECURSIVE EncodePairs(_)
EncodePairs(pairs) ==
    IF pairs = <<>> THEN <<>>
    ELSE LET kv == Head(pairs)[1] \o <<"=">> \o QueryEscape(Head(pairs)[2])
         IN  IF Len(pairs) = 1 THEN kv ELSE kv \o <<"&">> \o EncodePairs(Tail(pairs))

\* the query url.Values of buildRequestURL, in the key order Encode emits
QueryPairs(p) ==
    (IF p.Date # <<>> THEN << <<<<"d","a","t","e">>, p.Date>> >> ELSE <<>>) \o
    (IF p.Page > 1 THEN << <<<<"p","a","g","e">>, Itoa(p.Page)>> >> ELSE <<>>) \o
    (IF p.Tag # <<>> THEN << <<<<"t","a","g">>, p.Tag>> >> ELSE <<>>) \o
    (IF p.URL # <<>> THEN << <<<<"u","r","l">>, p.URL>> >> ELSE <<>>)

\* BookmarkService.buildRequestURL
buildRequestURL(p) ==
    LET base  == baseURL \o <<"/">> \o p.Username \o <<"/","r","s","s">>
        query == QueryPairs(p)
    IN  IF Len(query) > 0 THEN base \o <<"?">> \o EncodePairs(query) ELSE base

\* the mutant reports the page as it was given
getPageAsGiven(page) == page

\* BookmarkService.getPageOrDefault
getPageOrDefault(page) == IF page <= 0 THEN 1 ELSE page

\* the response GetBookmarks builds from the query and the parsed feed
buildResponse(p, data) ==
    [User       |-> p.Username,
     Page       |-> getPageOrDefault(p.Page),
     TotalCount |-> Len(data.Items),
     Filters    |-> IF p.Tag # <<>> \/ p.Date # <<>> \/ p.URL # <<>>
                    THEN Ptr([Tag |-> p.Tag, Date |-> p.Date, URL |-> p.URL])
                    ELSE NilPtr,
     Bookmarks  |-> data.Items]

\* the mutant does not look at the status of the response
fetchResultAnyStatus(outcome, url) ==
    IF outcome.kind = "transport" \/ outcome.readErr
    THEN [body |-> NilPtr,
          err  |-> Ptr(MCPError(ErrorCodeNetwork, "Failed to fetch RSS feed",
                                [url |-> url]))]
    ELSE [body |-> Ptr(outcome.body), err |-> NilPtr]

\* BookmarkService.fetchRSSFeed once client.Do has returned: [body, err].
\* An outcome is what the network did: kind "transport" (client.Do failed:
\* DNS, TLS, refused, the 10 s client timeout, context cancelled), or kind
\* "response" with its status, whether reading the body failed, and the body.
fetchResult(outcome, url) ==
    IF outcome.kind = "transport"
    THEN [body |-> NilPtr,
          err  |-> Ptr(MCPError(ErrorCodeNetwork, "Failed to fetch RSS feed",
                                [url |-> url]))]
    ELSE IF outcome.status # StatusOK
    THEN [body |-> NilPtr,
          err  |-> Ptr(MCPError(ErrorCodeAPI, "API returned status",
                                [status_code |-> outcome.status, url |-> url]))]
    ELSE IF outcome.readErr
    THEN [body |-> NilPtr,
          err  |-> Ptr(MCPError(ErrorCodeNetwork, "Failed to read response body",
                                [url |-> url]))]
    ELSE [body |-> Ptr(outcome.body), err |-> NilPtr]

----------------------------------------------------------------------------
(* cmd/main.go: the tool handler *)

\* createSuccessResult
createSuccessResult(result) == [IsError |-> FALSE, Text |-> [json |-> result]]

\* the result handleGetBookmarks returns for what GetBookmarks returned
handlerResult(result, e) ==
    IF ~ IsNil(e)
    THEN [IsError |-> TRUE, Text |-> [message |-> Deref(e).Message]]
    ELSE createSuccessResult(Deref(result))

----------------------------------------------------------------------------
(* Inputs *)

Programming == <<"p","r","o","g","r","a","m","m","i","n","g">>
Go    == <<"g","o">>
Mcp   == <<"m","c","p">>
Tools == <<"t","o","o","l","s">>

UsernamesIn ==
    { <<>>, <<" ">>, <<"a","b">>, <<"a","-","1">>, <<"a","/","b">>,
      <<"a","?","b">>, <<"a","#","b">>, <<".",".">>, <<"a","%","2","F">>,
      <<"a","b"," ">>, <<"a", KanaA>>,
      Repeat("a", MaxUsernameLen + 1) }

TagsIn == { <<>>, Go, <<"<","b",">">>, <<"a","&","b","=","c"," ","%","+">> }

DatesIn == { <<>>, <<"2","0","2","4","0","2","2","9">>, <<"2","0","2","4","0","2","3","0">>, <<"2","0","2","4","-","1","-","1">> }

URLsIn ==
    { <<>>, <<"h","t","t","p","s",":","/","/","e",".","j","p","/">>, <<"f","t","p",":","/","/","e",".","j","p">>, <<"e",".","j","p">> }

PagesIn == { -1, 0, 1, 2, MaxPage + 1 }

ParamsIn ==
    [Username : UsernamesIn, Tag : TagsIn, Date : DatesIn, URL : URLsIn, Page : PagesIn]

\* date strings found in feeds
GarbageDate == [form |-> "garbage", t |-> 7, zone |-> "", frac |-> 0]

FeedDates ==
    { EmptyDate, GarbageDate,
      [form |-> "RFC1123",  t |-> 7, zone |-> "Z",      frac |-> 0],
      [form |-> "RFC1123Z", t |-> 7, zone |-> "+09:00", frac |-> 0],
      [form |-> "RFC822",   t |-> 7, zone |-> "Z",      frac |-> 0],
      [form |-> "RFC822Z",  t |-> 7, zone |-> "+00:00", frac |-> 0],
      [form |-> "RFC3339",  t |-> 7, zone |-> "Z",      frac |-> 0],
      [form |-> "RFC3339",  t |-> 7, zone |-> "+00:00", frac |-> 0],
      [form |-> "RFC3339",  t |-> 7, zone |-> "+09:00", frac |-> 1],
      [form |-> "ISOnoTZ",  t |-> 7, zone |-> "",       frac |-> 0],
      [form |-> "bare",     t |-> 7, zone |-> "",       frac |-> 0] }

GoodDate == [form |-> "RFC3339", t |-> 7, zone |-> "Z", frac |-> 0]

SubjectsIn == { <<>>, <<" ">>, Go, Mcp, Tools, <<" ">> \o Go \o <<" ">>, Programming }

SeqsUpTo(S, n) == UNION { [1..k -> S] : k \in 0..n }

RSSItem(date, subjects) ==
    [Title |-> <<"t">>, Link |-> <<"u">>, Description |-> <<"c">>,
     PubDate |-> date, Subjects |-> subjects]

RDFItem(date, subject, count) ==
    [Title |-> <<"t">>, Link |-> <<"u">>, Description |-> <<"c">>,
     Date |-> date, Subject |-> subject, BookmarkCount |-> count,
     ContentEncoded |-> <<>>]

\* description texts: markup, padding, an unclosed "<", and texts at and just
\* over the length limit, in ASCII and in three-byte characters
DescriptionsIn ==
    { <<>>,
      <<"<","b",">","h","e","l","l","o","<","/","b",">"," ","w","o","r","l","d">>,
      <<" ","h","i","\n">>,
      <<"a","<","b">>,
      <<"<","p",">"," ","x"," ","<","/","p",">">>,
      Repeat("a", MaxCommentLen),
      Repeat("a", MaxCommentLen + 1),
      <<"<","i",">">> \o Repeat("a", MaxCommentLen) \o <<"<","/","i",">"," ">>,
      Repeat(KanaA, MaxCommentLen \div 3),
      Repeat(KanaA, MaxCommentLen \div 3 + 1) }

\* every date with one subject, every subject list with one date, and every
\* description
RSSItemsRich ==
    { RSSItem(d, <<Go>>) : d \in FeedDates } \cup
    { RSSItem(GoodDate, ss) : ss \in SeqsUpTo(SubjectsIn \ {Programming}, MaxSubjects) } \cup
    { [RSSItem(GoodDate, <<>>) EXCEPT !.Description = d] : d \in DescriptionsIn }

RDFItemsRich ==
    { RDFItem(d, Go, <<"3">>) : d \in FeedDates } \cup
    { RDFItem(GoodDate, sj, <<>>) : sj \in SubjectsIn }

RSSItemsSmall ==
    { RSSItem(GoodDate, <<Go, Mcp>>), RSSItem(GarbageDate, <<Go>>),
      RSSItem(EmptyDate, << <<" ">> >>) }

RDFItemsSmall ==
    { RDFItem(GoodDate, Go, <<"3">>), RDFItem(GarbageDate, Go, <<>>),
      RDFItem(GoodDate, <<" ">>, <<"3">>), RDFItem(GoodDate, <<>>, <<"x">>) }

DocSize(items) == 120 + 200 * Len(items)

Doc(syntax, prefix, local, xmlns, cdata, items) ==
    [syntax |-> syntax, rootPrefix |-> prefix, rootLocal |-> local, xmlns |-> xmlns,
     cdata |-> cdata, size |-> DocSize(items), title |-> <<"f">>, items |-> items]

\* <rss version="2.0">: plain, declaring xmlns:rdf, quoting "<rdf:RDF" in CDATA,
\* and cut short
RSSDocs(items) ==
    { Doc(TRUE, "", "rss", {}, FALSE, items), Doc(TRUE, "", "rss", {"rdf"}, FALSE, items),
      Doc(TRUE, "", "rss", {}, TRUE, items), Doc(FALSE, "", "rss", {}, FALSE, items) }

\* <rdf:RDF xmlns:rdf=..>, <r:RDF xmlns:r=..>, <RDF xmlns=..>, <rdf:RDF> without
\* the declaration, and cut short
RDFDocs(items) ==
    { Doc(TRUE, "rdf", "RDF", {"rdf"}, FALSE, items),
      Doc(TRUE, "r", "RDF", {"r"}, FALSE, items),
      Doc(TRUE, "", "RDF", {""}, FALSE, items),
      Doc(TRUE, "rdf", "RDF", {}, FALSE, items),
      Doc(FALSE, "rdf", "RDF", {"rdf"}, FALSE, items) }

HTMLDoc == Doc(TRUE, "", "html", {}, FALSE, <<>>)

EmptyBody == [Doc(FALSE, "", "", {}, FALSE, <<>>) EXCEPT !.size = 0]

\* the documents the parser is checked on
ParserDocs ==
    UNION { RSSDocs(items) : items \in SeqsUpTo(RSSItemsSmall, MaxItems) } \cup
    UNION { RDFDocs(items) : items \in SeqsUpTo(RDFItemsSmall, MaxItems) } \cup
    { Doc(TRUE, "", "rss", {}, FALSE, <<i>>) : i \in RSSItemsRich } \cup
    { Doc(TRUE, "rdf", "RDF", {"rdf"}, FALSE, <<i>>) : i \in RDFItemsRich } \cup
    { HTMLDoc, EmptyBody }

\* the bodies the upstream service answers a tool call with
FetchDocs ==
    { Doc(TRUE, "", "rss", {}, FALSE, <<RSSItem(GoodDate, <<Go>>), RSSItem(GarbageDate, <<>>)>>),
      Doc(TRUE, "", "rss", {"rdf"}, FALSE, <<RSSItem(GoodDate, <<Go>>)>>),
      Doc(TRUE, "rdf", "RDF", {"rdf"}, FALSE,
          <<RDFItem(GoodDate, Go, <<"3">>), RDFItem(EmptyDate, <<" ">>, <<>>)>>),
      Doc(TRUE, "rdf", "RDF", {"rdf"}, FALSE, <<RDFItem(GoodDate, Go, <<"x">>)>>),
      HTMLDoc, EmptyBody }

Statuses == { StatusOK, 204, 404, 500 }

HTTPOutcomes ==
    { [kind |-> "transport", status |-> 0, readErr |-> FALSE, body |-> EmptyBody] } \cup
    { [kind |-> "response", status |-> st, readErr |-> FALSE, body |-> EmptyBody] :
        st \in Statuses \ {StatusOK} } \cup
    { [kind |-> "response", status |-> StatusOK, readErr |-> TRUE, body |-> EmptyBody] } \cup
    { [kind |-> "response", status |-> StatusOK, readErr |-> FALSE, body |-> d] :
        d \in FetchDocs }

----------------------------------------------------------------------------
(* The tool call as a state machine *)

NoParams == [Username |-> <<>>, Tag |-> <<>>, Date |-> <<>>, URL |-> <<>>, Page |-> 0]

Init ==
    /\ pc = "idle"
    /\ params = NoParams
    /\ requestURL = <<>>
    /\ httpGets = 0
    /\ xmlContent = NilPtr
    /\ parsedData = NilPtr
    /\ response = NilPtr
    /\ err = NilPtr
    /\ toolResult = NilPtr
    /\ stages = <<>>
    /\ dialect = ""
    /\ log = {}
    /\ now = 0
    /\ entries = <<>>
    /\ got = NilPtr
    /\ lastSet = <<>>
    /\ mutex = [readers |-> 0, writer |-> FALSE]
    /\ inside = [g \in Goroutines |-> NilPtr]
    /\ lastGet = NilPtr
    /\ lastOK = NilPtr

\* the host delivers a get_hatena_bookmarks call: handleGetBookmarks copies the
\* arguments and calls GetBookmarks
StartCall ==
    /\ pc = "idle"
    /\ \E p \in ParamsIn : params' = p
    /\ pc' = "validate"
    /\ UNCHANGED <<requestURL, httpGets, xmlContent, parsedData, response, err,
                   toolResult, stages, dialect, log, now>>
    /\ UNCHANGED cacheVars

\* the mutant carries on after a validation failure
ValidateNoReturn ==
    /\ pc = "validate"
    /\ stages' = Append(stages, "validate")
    /\ err' = validateParams(params)
    /\ pc' = "build"
    /\ UNCHANGED <<params, requestURL, httpGets, xmlContent, parsedData, response,
                   toolResult, dialect, log, now>>
    /\ UNCHANGED cacheVars

\* GetBookmarks: s.validateParams(params), returning its error
Validate ==
    /\ pc = "validate"
    /\ stages' = Append(stages, "validate")
    /\ \E e \in {validateParams(params)} :
           /\ err' = e
           /\ pc' = IF IsNil(e) THEN "build" ELSE "return"
    /\ UNCHANGED <<params, requestURL, httpGets, xmlContent, parsedData, response,
                   toolResult, dialect, log, now>>
    /\ UNCHANGED cacheVars

\* GetBookmarks: s.buildRequestURL(params)
BuildURL ==
    /\ pc = "build"
    /\ stages' = Append(stages, "build")
    /\ requestURL' = buildRequestURL(params)
    /\ pc' = "fetch"
    /\ UNCHANGED <<params, httpGets, xmlContent, parsedData, response, err,
                   toolResult, dialect, log, now>>
    /\ UNCHANGED cacheVars

\* fetchRSSFeed: s.client.Do(req) sends the GET
FetchSend ==
    /\ pc = "fetch"
    /\ stages' = Append(stages, "fetch")
    /\ httpGets' = httpGets + 1
    /\ pc' = "await"
    /\ UNCHANGED <<params, requestURL, xmlContent, parsedData, response, err,
                   toolResult, dialect, log, now>>
    /\ UNCHANGED cacheVars

\* what fetchRSSFeed does with the outcome o of client.Do
FetchReturn(o) ==
    /\ \E r \in {fetchResult(o, requestURL)} :
           /\ xmlContent' = r.body
           /\ err' = r.err
           /\ pc' = IF IsNil(r.err) THEN "parse" ELSE "return"
    /\ UNCHANGED <<params, requestURL, httpGets, parsedData, response, toolResult,
                   stages, dialect, log, now>>
    /\ UNCHANGED cacheVars

\* fetchRSSFeed: client.Do fails at once (DNS, TLS, connection refused)
FetchTransportFail ==
    /\ pc = "await"
    /\ \E o \in HTTPOutcomes : o.kind = "transport" /\ FetchReturn(o)

\* the mutant client is built without a Timeout: client.Do may wait for ever
FetchTimeoutNever ==
    /\ pc = "await"
    /\ FALSE
    /\ UNCHANGED vars

\* fetchRSSFeed: client.Do gives up after the client's Timeout, or when the
\* request context is cancelled
FetchTimeout ==
    /\ pc = "await"
    /\ \E o \in HTTPOutcomes : o.kind = "transport" /\ FetchReturn(o)

\* fetchRSSFeed: the response arrives; the status is checked and the body read
FetchResponse ==
    /\ pc = "await"
    /\ \E o \in HTTPOutcomes : o.kind = "response" /\ FetchReturn(o)

\* GetBookmarks: s.rssParser.ParseRSSFeed(ctx, xmlContent), returning its error
Parse ==
    /\ pc = "parse"
    /\ stages' = Append(stages, "parse")
    /\ \E r \in {ParseRSSFeed(Deref(xmlContent), now)} :
           /\ parsedData' = r.data
           /\ err' = r.err
           /\ dialect' = r.parser
           /\ log' = r.log
           /\ pc' = IF IsNil(r.err) THEN "assemble" ELSE "return"
    /\ UNCHANGED <<params, requestURL, httpGets, xmlContent, response, toolResult, now>>
    /\ UNCHANGED cacheVars

\* GetBookmarks: build the response
Assemble ==
    /\ pc = "assemble"
    /\ stages' = Append(stages, "assemble")
    /\ response' = Ptr(buildResponse(params, Deref(parsedData)))
    /\ pc' = "return"
    /\ UNCHANGED <<params, requestURL, httpGets, xmlContent, parsedData, err,
                   toolResult, dialect, log, now>>
    /\ UNCHANGED cacheVars

\* handleGetBookmarks: turn what GetBookmarks returned into the tool result
Return ==
    /\ pc = "return"
    /\ toolResult' = Ptr(handlerResult(response, err))
    /\ pc' = "done"
    /\ UNCHANGED <<params, requestURL, httpGets, xmlContent, parsedData, response,
                   err, stages, dialect, log, now>>
    /\ UNCHANGED cacheVars

\* the host has taken the result; the call's frame is gone
EndCall ==
    /\ pc = "done"
    /\ pc' = "idle"
    /\ params' = NoParams
    /\ requestURL' = <<>>
    /\ httpGets' = 0
    /\ xmlContent' = NilPtr
    /\ parsedData' = NilPtr
    /\ response' = NilPtr
    /\ err' = NilPtr
    /\ toolResult' = NilPtr
    /\ stages' = <<>>
    /\ dialect' = ""
    /\ log' = {}
    /\ UNCHANGED now
    /\ UNCHANGED cacheVars

\* time passes
Tick ==
    /\ now < MaxTime
    /\ now' = now + 1
    /\ UNCHANGED <<pc, params, requestURL, httpGets, xmlContent, parsedData, response,
                   err, toolResult, stages, dialect, log>>
    /\ UNCHANGED cacheVars

Next ==
    /\ \/ StartCall
       \/ Validate
       \/ BuildURL
       \/ FetchSend
       \/ FetchTransportFail
       \/ FetchTimeout
       \/ FetchResponse
       \/ Parse
       \/ Assemble
       \/ Return
       \/ EndCall
       \/ Tick
    /\ UNCHANGED <<lastGet, lastOK>>

Spec == Init /\ [][Next]_vars

\* Once the host has delivered a call the Go runtime keeps running its goroutine,
\* and client.Do returns at the latest when the client's 10 s Timeout fires.  The
\* upstream service owes no answer: FetchResponse and FetchTransportFail are not fair.
CallStep ==
    /\ \/ Validate
       \/ BuildURL
       \/ FetchSend
       \/ FetchTimeout
       \/ Parse
       \/ Assemble
       \/ Return
    /\ UNCHANGED <<lastGet, lastOK>>

FairSpec == Spec /\ WF_vars(CallStep)

----------------------------------------------------------------------------
(* One client calling the tool again and again *)

\* calls follow one another with the same few queries; what went upstream
\* and what succeeded is remembered
NextSession ==
    \/ /\ StartCall
       /\ params'.Username \in {<<"a","b">>, <<"a","-","1">>}
       /\ params'.Tag = <<>> /\ params'.Date = <<>> /\ params'.URL = <<>>
       /\ params'.Page \in {0, 2}
       /\ UNCHANGED <<lastGet, lastOK>>
    \/ /\ FetchSend
       /\ lastGet' = Ptr([Username |-> params.Username, at |-> now])
       /\ UNCHANGED lastOK
    \/ /\ Return
       /\ lastOK' = IF IsNil(err) THEN Ptr([params |-> params, at |-> Deref(lastGet).at])
                    ELSE lastOK
       /\ UNCHANGED lastGet
    \/ /\ \/ Validate
          \/ BuildURL
          \/ FetchTransportFail
          \/ FetchTimeout
          \/ FetchResponse
          \/ Parse
          \/ Assemble
          \/ EndCall
          \/ Tick
       /\ UNCHANGED <<lastGet, lastOK>>

SpecSession == Init /\ [][NextSession]_vars

\* ParseRSSFeed on its own: any document, at any time
InitParser ==
    /\ pc = "parse"
    /\ params = NoParams
    /\ requestURL = <<>>
    /\ httpGets = 0
    /\ \E d \in ParserDocs : xmlContent = Ptr(d)
    /\ parsedData = NilPtr
    /\ response = NilPtr
    /\ err = NilPtr
    /\ toolResult = NilPtr
    /\ stages = <<>>
    /\ dialect = ""
    /\ log = {}
    /\ now = 0
    /\ entries = <<>>
    /\ got = NilPtr
    /\ lastSet = <<>>
    /\ mutex = [readers |-> 0, writer |-> FALSE]
    /\ inside = [g \in Goroutines |-> NilPtr]
    /\ lastGet = NilPtr
    /\ lastOK = NilPtr

NextParser ==
    /\ \/ Parse
       \/ Tick
    /\ UNCHANGED <<lastGet, lastOK>>

SpecParser == InitParser /\ [][NextParser]_vars

----------------------------------------------------------------------------
(* The Validator on its own: one rule applied to one value of a query *)

\* usernames: blank, padded, with a character outside the set, at and over the limit
ValidatorUsernamesIn ==
    { <<>>,
      <<" ">>,
      <<"a","b">>,
      <<" ","a","b"," ">>,
      <<"a","-","1">>,
      <<"A","9">>,
      <<"a","/","b">>,
      <<"a"," ","b">>,
      <<"a","_","b">>,
      <<"a",".","b">>,
      Repeat("a", MaxUsernameLen),
      Repeat("a", MaxUsernameLen + 1),
      <<" ">> \o Repeat("a", MaxUsernameLen),
      <<"a", KanaA>> }

\* tags: each forbidden character, padded, at and over the limit in ASCII and in
\* three-byte characters
ValidatorTagsIn ==
    { <<>>,
      Go,
      <<"a"," ","b">>,
      <<" ","g","o"," ">>,
      <<"a","<","b">>,
      <<"a",">","b">>,
      <<"a","\"","b">>,
      <<"a","'","b">>,
      <<"a","&","b">>,
      <<"<","b",">">>,
      Repeat("a", MaxTagLen),
      Repeat("a", MaxTagLen + 1),
      Repeat("a", MaxTagLen) \o <<" ">>,
      Repeat(KanaA, MaxTagLen \div 3),
      Repeat(KanaA, MaxTagLen \div 3 + 1) }

\* dates: leap days, days and months out of range, years at the limits, wrong
\* lengths, padded
ValidatorDatesIn ==
    { <<>>,
      <<"2","0","2","4","0","2","2","9">>,
      <<"2","0","2","3","0","2","2","9">>,
      <<"2","0","0","0","0","2","2","9">>,
      <<"1","9","0","0","0","2","2","9">>,
      <<"2","0","2","4","0","2","3","0">>,
      <<"2","0","2","4","0","4","3","1">>,
      <<"2","0","2","4","0","4","3","0">>,
      <<"2","0","2","4","1","3","0","1">>,
      <<"2","0","2","4","0","0","0","1">>,
      <<"2","0","2","4","0","1","0","0">>,
      <<"2","0","2","4","0","1","3","2">>,
      <<"2","0","2","4","0","1","3","1">>,
      <<"1","8","9","9","1","2","3","1">>,
      <<"1","9","0","0","0","1","0","1">>,
      <<"2","0","2","5","1","2","3","1">>,
      <<"2","0","2","6","0","1","0","1">>,
      <<"2","0","2","4","-","1","-","1">>,
      <<"2","0","2","4","0","2","2">>,
      <<"2","0","2","4","0","2","2","9","0">>,
      <<"2","0","2","4","0","2","2","a">>,
      <<" ","2","0","2","4","0","2","2","9"," ">>,
      <<"2","0","2","4"," ","2","2","9">> }

\* URLs: schemes, missing scheme or host, padded, at and over the limit
ValidatorURLsIn ==
    { <<>>,
      <<"h","t","t","p","s",":","/","/","e",".","j","p","/">>,
      <<"h","t","t","p",":","/","/","e",".","j","p">>,
      <<"H","T","T","P",":","/","/","e",".","j","p">>,
      <<"h","t","t","p",":","/","/","e",".","j","p",":","8","0","8","0","/","p","?","q","=","1","#","f">>,
      <<"f","t","p",":","/","/","e",".","j","p">>,
      <<"j","a","v","a","s","c","r","i","p","t",":","a","l","e","r","t","(","1",")">>,
      <<"e",".","j","p">>,
      <<"/","/","e",".","j","p","/","x">>,
      <<"h","t","t","p","s",":","/","/","/","x">>,
      <<"/","r","s","s">>,
      <<" ","h","t","t","p","s",":","/","/","e",".","j","p","/"," ">>,
      <<"h","t","t","p",":","/","/","e",".","j","p",":","x","/">>,
      <<"h","t","t","p","s",":","/","/","e",".","j","p","/">> \o Repeat("a", MaxURLLen - 13),
      <<"h","t","t","p","s",":","/","/","e",".","j","p","/">> \o Repeat("a", MaxURLLen - 13) \o <<"a">>,
      <<"h","t","t","p","s",":","/","/","e",".","j","p","/">> \o Repeat("a", MaxURLLen - 13) \o <<" ">> }

\* queries that differ from the empty query in one field
ValidatorParamsIn ==
    { [NoParams EXCEPT !.Username = x] : x \in ValidatorUsernamesIn } \cup
    { [NoParams EXCEPT !.Tag = x] : x \in ValidatorTagsIn } \cup
    { [NoParams EXCEPT !.Date = x] : x \in ValidatorDatesIn } \cup
    { [NoParams EXCEPT !.URL = x] : x \in ValidatorURLsIn }

InitValidator ==
    /\ pc = "validator"
    /\ params \in ValidatorParamsIn
    /\ requestURL = <<>>
    /\ httpGets = 0
    /\ xmlContent = NilPtr
    /\ parsedData = NilPtr
    /\ response = NilPtr
    /\ err = NilPtr
    /\ toolResult = NilPtr
    /\ stages = <<>>
    /\ dialect = ""
    /\ log = {}
    /\ now = 0
    /\ entries = <<>>
    /\ got = NilPtr
    /\ lastSet = <<>>
    /\ mutex = [readers |-> 0, writer |-> FALSE]
    /\ inside = [g \in Goroutines |-> NilPtr]
    /\ lastGet = NilPtr
    /\ lastOK = NilPtr

\* v.ValidateUsername(params.Username)
CallValidateUsername ==
    /\ pc = "validator"
    /\ err' = ValidateUsername(params.Username)
    /\ pc' = "ValidateUsername"
    /\ UNCHANGED <<params, requestURL, httpGets, xmlContent, parsedData, response,
                   toolResult, stages, dialect, log, now>>
    /\ UNCHANGED cacheVars

\* v.ValidateTag(params.Tag)
CallValidateTag ==
    /\ pc = "validator"
    /\ err' = ValidateTag(params.Tag)
    /\ pc' = "ValidateTag"
    /\ UNCHANGED <<params, requestURL, httpGets, xmlContent, parsedData, response,
                   toolResult, stages, dialect, log, now>>
    /\ UNCHANGED cacheVars

\* v.ValidateDate(params.Date)
CallValidateDate ==
    /\ pc = "validator"
    /\ err' = ValidateDate(params.Date)
    /\ pc' = "ValidateDate"
    /\ UNCHANGED <<params, requestURL, httpGets, xmlContent, parsedData, response,
                   toolResult, stages, dialect, log, now>>
    /\ UNCHANGED cacheVars

\* v.ValidateURL(params.URL)
CallValidateURL ==
    /\ pc = "validator"
    /\ err' = ValidateURL(params.URL)
    /\ pc' = "ValidateURL"
    /\ UNCHANGED <<params, requestURL, httpGets, xmlContent, parsedData, response,
                   toolResult, stages, dialect, log, now>>
    /\ UNCHANGED cacheVars

NextValidator ==
    /\ \/ CallValidateUsername
       \/ CallValidateTag
       \/ CallValidateDate
       \/ CallValidateURL
    /\ UNCHANGED <<lastGet, lastOK>>

SpecValidator == InitValidator /\ [][NextValidator]_vars

----------------------------------------------------------------------------
(* internal/utils: Cache *)

\* Cache.ttl, the argument of NewCache, in abstract seconds
TTL == 1

\* string(rune(r)): the one-character string of code point r; a surrogate or
\* a number beyond the last code point gives the replacement character
RuneString(r) ==
    IF r \in 55296..57343 \/ r > 1114111 THEN "U+FFFD"
    ELSE IF r \in 48..57 THEN DigitSeq[r - 47]
    ELSE "rune(" \o ToString(r) \o ")"

\* the mutant keys a query by the page it is answered with
GenerateCacheKeyEffectivePage(p) ==
    p.Username \o
    (IF p.Tag # <<>> THEN <<"_","t","a","g",":">> \o p.Tag ELSE <<>>) \o
    (IF p.Date # <<>> THEN <<"_","d","a","t","e",":">> \o p.Date ELSE <<>>) \o
    (IF p.URL # <<>> THEN <<"_","u","r","l",":">> \o p.URL ELSE <<>>) \o
    <<"_","p","a","g","e",":", RuneString(IF p.Page <= 0 THEN 1 ELSE p.Page)>>

\* GenerateCacheKey
GenerateCacheKey(p) ==
    p.Username \o
    (IF p.Tag # <<>> THEN <<"_","t","a","g",":">> \o p.Tag ELSE <<>>) \o
    (IF p.Date # <<>> THEN <<"_","d","a","t","e",":">> \o p.Date ELSE <<>>) \o
    (IF p.URL # <<>> THEN <<"_","u","r","l",":">> \o p.URL ELSE <<>>) \o
    (IF p.Page > 0 THEN <<"_","p","a","g","e",":", RuneString(p.Page)>> ELSE <<>>)

\* the mutant never looks at ExpiresAt
CacheGetNoExpiry(es, key, clock) ==
    IF key \notin DOMAIN es THEN [data |-> NilPtr, ok |-> FALSE]
    ELSE [data |-> es[key].Data, ok |-> TRUE]

\* what Cache.Get returns for the map es at time clock: time.Now().After(
\* entry.ExpiresAt) is strict, an entry is still served at ExpiresAt itself
CacheGet(es, key, clock) ==
    IF key \notin DOMAIN es THEN [data |-> NilPtr, ok |-> FALSE]
    ELSE IF clock > es[key].ExpiresAt THEN [data |-> NilPtr, ok |-> FALSE]
    ELSE [data |-> es[key].Data, ok |-> TRUE]

\* the mutant drops the entry it finds expired
GetLazyRemoval(key) ==
    /\ pc = "cache"
    /\ \E r \in {CacheGet(entries, key, now)} :
           /\ got' = Ptr([key |-> key, data |-> r.data, ok |-> r.ok, at |-> now])
           /\ entries' = IF r.ok THEN entries
                         ELSE [k \in DOMAIN entries \ {key} |-> entries[k]]
    /\ UNCHANGED <<lastSet, now>>
    /\ UNCHANGED callVars

\* Cache.Get: under the read lock; the map is left as it is
Get(key) ==
    /\ pc = "cache"
    /\ \E r \in {CacheGet(entries, key, now)} :
           got' = Ptr([key |-> key, data |-> r.data, ok |-> r.ok, at |-> now])
    /\ UNCHANGED <<entries, lastSet, now>>
    /\ UNCHANGED callVars

\* the mutant leaves the expiry time of a stored key as it was
SetKeepExpiry(key, data) ==
    /\ pc = "cache"
    /\ entries' = [k \in DOMAIN entries \cup {key} |->
                      IF k # key THEN entries[k]
                      ELSE [Data |-> data,
                            ExpiresAt |-> IF key \in DOMAIN entries
                                          THEN entries[key].ExpiresAt
                                          ELSE now + TTL]]
    /\ lastSet' = [k \in DOMAIN lastSet \cup {key} |->
                      IF k = key THEN [Data |-> data, At |-> now] ELSE lastSet[k]]
    /\ UNCHANGED <<got, now>>
    /\ UNCHANGED callVars

\* Cache.Set: under the write lock
Set(key, data) ==
    /\ pc = "cache"
    /\ entries' = [k \in DOMAIN entries \cup {key} |->
                      IF k = key THEN [Data |-> data, ExpiresAt |-> now + TTL]
                      ELSE entries[k]]
    /\ lastSet' = [k \in DOMAIN lastSet \cup {key} |->
                      IF k = key THEN [Data |-> data, At |-> now] ELSE lastSet[k]]
    /\ UNCHANGED <<got, now>>
    /\ UNCHANGED callVars

\* Cache.Delete: under the write lock
Delete(key) ==
    /\ pc = "cache"
    /\ entries' = [k \in DOMAIN entries \ {key} |-> entries[k]]
    /\ lastSet' = [k \in DOMAIN lastSet \ {key} |-> lastSet[k]]
    /\ UNCHANGED <<got, now>>
    /\ UNCHANGED callVars

\* Cache.Clear: under the write lock
Clear ==
    /\ pc = "cache"
    /\ entries' = <<>>
    /\ lastSet' = <<>>
    /\ UNCHANGED <<params, got, now>>
    /\ UNCHANGED callVars

\* the mutant sweeps every entry away, expired or not
cleanupEverything ==
    /\ pc = "cache"
    /\ entries' = <<>>
    /\ UNCHANGED <<params, got, lastSet, now>>
    /\ UNCHANGED callVars

\* Cache.cleanup: one round of the sweep goroutine, under the write lock
cleanup ==
    /\ pc = "cache"
    /\ entries' = [k \in {j \in DOMAIN entries : ~ (now > entries[j].ExpiresAt)} |->
                      entries[k]]
    /\ UNCHANGED <<params, got, lastSet, now>>
    /\ UNCHANGED callVars

\* the queries whose results are cached
CacheParamsIn ==
    { [NoParams EXCEPT !.Username = <<"a">>, !.Page = 1],
      [NoParams EXCEPT !.Username = <<"a">>, !.Page = 2],
      [NoParams EXCEPT !.Username = <<"a">>, !.Tag = <<"x">>,
                       !.Date = <<"2","0","2","4","0","1","0","1">>],
      [NoParams EXCEPT !.Username = <<"a">>,
                       !.Tag = <<"x","_","d","a","t","e",":","2","0","2","4","0","1","0","1">>] }

\* two responses to store
CacheDataIn ==
    { Ptr([User |-> u, Page |-> 1, TotalCount |-> 0, Filters |-> NilPtr, Bookmarks |-> <<>>]) :
        u \in {<<"a">>, <<"b">>} }

\* after NewCache(TTL)
InitCache ==
    /\ pc = "cache"
    /\ params = NoParams
    /\ requestURL = <<>>
    /\ httpGets = 0
    /\ xmlContent = NilPtr
    /\ parsedData = NilPtr
    /\ response = NilPtr
    /\ err = NilPtr
    /\ toolResult = NilPtr
    /\ stages = <<>>
    /\ dialect = ""
    /\ log = {}
    /\ now = 0
    /\ entries = <<>>
    /\ got = NilPtr
    /\ lastSet = <<>>
    /\ mutex = [readers |-> 0, writer |-> FALSE]
    /\ inside = [g \in Goroutines |-> NilPtr]
    /\ lastGet = NilPtr
    /\ lastOK = NilPtr

\* a caller looks up, stores or drops the result of a query under its
\* GenerateCacheKey; Clear and the sweep come at any time
NextCache ==
    /\ \/ /\ \/ \E q \in CacheParamsIn : params' = q /\ Get(GenerateCacheKey(q))
             \/ \E q \in CacheParamsIn, d \in CacheDataIn : params' = q /\ Set(GenerateCacheKey(q), d)
             \/ \E q \in CacheParamsIn : params' = q /\ Delete(GenerateCacheKey(q))
             \/ Clear
             \/ cleanup
          /\ UNCHANGED <<mutex, inside>>
       \/ Tick
    /\ UNCHANGED <<lastGet, lastOK>>

SpecCache == InitCache /\ [][NextCache]_vars

\* cleanup runs in its own goroutine from NewCache on and its loop over the
\* ticker never ends: a pass that has something to remove is eventually made,
\* whatever the requests do
FairSpecCache ==
    SpecCache /\ WF_vars(cleanup /\ UNCHANGED <<mutex, inside, lastGet, lastOK>>)

\* Cache.Size: under the read lock
Size ==
    /\ pc = "cache"
    /\ got' = Ptr([key |-> <<>>, data |-> NilPtr, ok |-> FALSE, at |-> now,
                   size |-> Cardinality(DOMAIN entries)])
    /\ UNCHANGED <<params, entries, lastSet, now>>
    /\ UNCHANGED callVars

\* the mutant takes the read lock in every method
EnterShared(g, call) ==
    /\ pc = "cache"
    /\ IsNil(inside[g])
    /\ ~ mutex.writer
    /\ mutex' = [mutex EXCEPT !.readers = @ + 1]
    /\ inside' = [inside EXCEPT ![g] = Ptr(call)]
    /\ UNCHANGED <<params, entries, got, lastSet, now>>
    /\ UNCHANGED callVars

\* the first statement of a Cache method: c.mutex.RLock() in Get and Size,
\* c.mutex.Lock() in Set, Delete, Clear and a pass of cleanup. RLock waits
\* while a writer holds the mutex, Lock while anyone holds it.
Enter(g, call) ==
    /\ pc = "cache"
    /\ IsNil(inside[g])
    /\ IF call.op \in {"Get", "Size"}
       THEN /\ ~ mutex.writer
            /\ mutex' = [mutex EXCEPT !.readers = @ + 1]
       ELSE /\ ~ mutex.writer
            /\ mutex.readers = 0
            /\ mutex' = [mutex EXCEPT !.writer = TRUE]
    /\ inside' = [inside EXCEPT ![g] = Ptr(call)]
    /\ UNCHANGED <<params, entries, got, lastSet, now>>
    /\ UNCHANGED callVars

\* the rest of the method and its unlock: the deferred RUnlock or Unlock of
\* Get, Size, Set, Delete and Clear, the Unlock that ends a pass of cleanup
Exit(g) ==
    /\ ~ IsNil(inside[g])
    /\ \E call \in {Deref(inside[g])} :
           \/ /\ call.op = "Get"
              /\ params' = call.q
              /\ Get(GenerateCacheKey(call.q))
              /\ mutex' = [mutex EXCEPT !.readers = @ - 1]
           \/ /\ call.op = "Size"
              /\ Size
              /\ mutex' = [mutex EXCEPT !.readers = @ - 1]
           \/ /\ call.op = "Set"
              /\ params' = call.q
              /\ Set(GenerateCacheKey(call.q), call.data)
              /\ mutex' = [mutex EXCEPT !.writer = FALSE]
           \/ /\ call.op = "Delete"
              /\ params' = call.q
              /\ Delete(GenerateCacheKey(call.q))
              /\ mutex' = [mutex EXCEPT !.writer = FALSE]
           \/ /\ call.op = "Clear"
              /\ Clear
              /\ mutex' = [mutex EXCEPT !.writer = FALSE]
           \/ /\ call.op = "cleanup"
              /\ cleanup
              /\ mutex' = [mutex EXCEPT !.writer = FALSE]
    /\ inside' = [inside EXCEPT ![g] = NilPtr]

\* requests call the methods of the cache at any time, with any query; the
\* sweep goroutine runs its passes
NextLocks ==
    /\ \/ \E g \in Goroutines \ {"cleanup"}, q \in CacheParamsIn, d \in CacheDataIn :
              \/ Enter(g, [op |-> "Get", q |-> q, data |-> NilPtr])
              \/ Enter(g, [op |-> "Set", q |-> q, data |-> d])
              \/ Enter(g, [op |-> "Delete", q |-> q, data |-> NilPtr])
              \/ Enter(g, [op |-> "Clear", q |-> NoParams, data |-> NilPtr])
              \/ Enter(g, [op |-> "Size", q |-> NoParams, data |-> NilPtr])
       \/ Enter("cleanup", [op |-> "cleanup", q |-> NoParams, data |-> NilPtr])
       \/ \E g \in Goroutines : Exit(g)
    /\ UNCHANGED <<lastGet, lastOK>>

SpecLocks == InitCache /\ [][NextLocks]_vars

----------------------------------------------------------------------------
(* Properties *)

IsPrefix(s, t) == Len(s) <= Len(t) /\ SubSeq(t, 1, Len(s)) = s

StageOrder == <<"validate", "build", "fetch", "parse", "assemble">>

Ran(stage) == stage \in Range(stages)

Failed(code) == ~ IsNil(err) /\ Deref(err).Code = code

ValidatorAccepts(p) == IsNil(ValidateGetBookmarksParams(p))

\* C1: GetBookmarks sends a GET only for a query that passes every Parameter
\* Validator rule, and a query that breaks a rule ends in a ValidationError with
\* no GET sent.
C1_FetchOnlyWhenValidatorAccepts ==
    /\ httpGets > 0 => ValidatorAccepts(params)
    /\ (pc = "done" /\ ~ ValidatorAccepts(params)) =>
          (Failed(ErrorCodeValidation) /\ httpGets = 0)

\* the stage whose failure yields an error of the given code
StageOf(code) ==
    CASE code = ErrorCodeValidation -> "validate"
      [] code = ErrorCodeNetwork    -> "fetch"
      [] code = ErrorCodeAPI        -> "fetch"
      [] code = ErrorCodeParsing    -> "parse"
      [] OTHER -> ""

\* C2: within one call the stages run at most once each, in the order validate,
\* build URL, fetch, parse, assemble; at most one GET is sent; and once a stage
\* has failed the call holds that stage's error, no later stage has run and
\* nothing remains but to return it.
C2_StagesOnceInOrder ==
    /\ IsPrefix(stages, StageOrder)
    /\ httpGets <= 1
    /\ (httpGets = 1) <=> Ran("fetch")
    /\ ~ IsNil(err) =>
          /\ pc \in {"return", "done"}
          /\ stages # <<>>
          /\ stages[Len(stages)] = StageOf(Deref(err).Code)
          /\ IsNil(response)

\* a call whose parse stage failed has returned without assembling anything
C2_Witness ==
    /\ pc = "done"
    /\ Failed(ErrorCodeParsing)
    /\ stages = <<"validate", "build", "fetch", "parse">>
    /\ httpGets = 1

\* the outcome of a finished call: a result or one classified error, never both
ExactlyOneOutcome ==
    /\ ~ IsNil(toolResult)
    /\ IsNil(err) # IsNil(response)
    /\ Deref(toolResult).IsError <=> ~ IsNil(err)
    /\ ~ IsNil(err) => Deref(err).Code \in ErrorCodes
    /\ ~ IsNil(response) =>
          Deref(response).TotalCount = Len(Deref(response).Bookmarks)

\* C3: every tool call ends, and ends with exactly one outcome: a well-formed
\* result or a single error classified Validation, Network, API or Parsing.
C3_EveryCallEndsWithOneOutcome ==
    /\ [](pc = "done" => ExactlyOneOutcome)
    /\ (pc = "validate") ~> (pc = "done")

\* a call whose fetch got no answer ended with a NetworkError
C3_Witness ==
    /\ pc = "done"
    /\ Failed(ErrorCodeNetwork)
    /\ Deref(toolResult).IsError
    /\ IsNil(response)

\* the bytes hold "<rdf:RDF" or "xmlns:rdf"
HasRDFMarker(doc) ==
    \/ doc.rootPrefix = "rdf" /\ doc.rootLocal = "RDF"
    \/ doc.cdata
    \/ "rdf" \in doc.xmlns

\* C4: a document holding the RDF marker goes to the RDF parser whatever else
\* it looks like, any other document goes to the RSS 2.0 parser, and one parser
\* runs per call.
C4_MarkerDecidesParser ==
    IF Ran("parse")
    THEN dialect = IF HasRDFMarker(Deref(xmlContent)) THEN "rdf" ELSE "rss2"
    ELSE dialect = ""

\* an <rss> document that declares xmlns:rdf went to the RDF parser
C4_Witness ==
    /\ Ran("parse")
    /\ Deref(xmlContent).rootLocal = "rss"
    /\ Deref(xmlContent).syntax
    /\ "rdf" \in Deref(xmlContent).xmlns
    /\ dialect = "rdf"

\* what the parse stage was given and what it produced
ParsedDoc == Deref(xmlContent)

Records == Deref(parsedData).Items

\* the document has the envelope the decoder of the given dialect expects,
\* whatever its items hold
EnvelopeOf(doc, parser) ==
    IF parser = "rdf"
    THEN ~ UnmarshalRDF([doc EXCEPT !.items = <<>>]).err
    ELSE ~ UnmarshalRSS([doc EXCEPT !.items = <<>>]).err

ValidEnvelope(doc) == EnvelopeOf(doc, "rss2") \/ EnvelopeOf(doc, "rdf")

\* C5: ParseRSSFeed fails with a ParsingError only for a document that is the
\* envelope of neither dialect, a document that is a valid envelope of one of
\* them yields a ParsedFeed whatever its fields hold, and the error's details
\* are the byte length of the input and nothing else.
C5_ParsingErrorOnlyForBadEnvelope ==
    Ran("parse") =>
        /\ Failed(ErrorCodeParsing) => ~ ValidEnvelope(ParsedDoc)
        /\ ValidEnvelope(ParsedDoc) => ~ IsNil(parsedData)
        /\ ~ IsNil(err) =>
              /\ Deref(err).Code = ErrorCodeParsing
              /\ Deref(err).Details = [xml_length |-> ParsedDoc.size]

\* the layouts the parser of a dialect tries on an item's date
KnownLayouts(parser) ==
    IF parser = "rdf"
    THEN Range(parseRDFDateFormats) \cup Range(parseDateFormats)
    ELSE Range(parseDateFormats)

Unparseable(d, parser) ==
    /\ d # EmptyDate
    /\ \A layout \in KnownLayouts(parser) : ~ Accepts(layout, d)

\* an RFC 3339 timestamp as time.Format writes it
Canonical(ts) ==
    /\ ts.form = "RFC3339"
    /\ ts.frac = 0
    /\ ts.zone \in {"Z", LocalZone}

\* the date of the i-th item of the parsed document
SourceDate(i) ==
    IF dialect = "rdf" THEN ParsedDoc.items[i].Date ELSE ParsedDoc.items[i].PubDate

\* C6: every record's bookmarkedAt is a canonical RFC 3339 timestamp, never
\* empty and never the unparsed source string, and a record whose source date
\* matches no known layout carries the time of the parse.
C6_BookmarkedAtCanonical ==
    /\ [](~ IsNil(parsedData) =>
            \A i \in 1..Len(Records) :
                /\ Canonical(Records[i].BookmarkedAt)
                /\ Records[i].BookmarkedAt # EmptyDate
                /\ ~ Canonical(SourceDate(i)) => Records[i].BookmarkedAt # SourceDate(i))
    /\ [][(Parse /\ ~ IsNil(parsedData')) =>
            \A i \in 1..Len(Deref(parsedData').Items) :
                LET src == IF dialect' = "rdf" THEN ParsedDoc.items[i].Date
                                               ELSE ParsedDoc.items[i].PubDate
                IN  (Unparseable(src, dialect') \/ src = EmptyDate) =>
                        Deref(parsedData').Items[i].BookmarkedAt = NowRFC3339(now)]_vars

\* a feed of either dialect whose item had a date in no known layout was parsed
\* after the clock had moved
C6_Witness ==
    /\ ~ IsNil(parsedData)
    /\ Len(Records) > 0
    /\ Unparseable(SourceDate(1), dialect)
    /\ Records[1].BookmarkedAt.t > 0
    /\ Canonical(Records[1].BookmarkedAt)

\* C7: when the document is well-formed XML with the envelope its parser
\* expects, no item makes the parse fail: every item yields a record, in
\* document order, and the feed's count is the number of records.
C7_ItemProblemsNeverAbort ==
    (Ran("parse") /\ EnvelopeOf(ParsedDoc, dialect)) =>
        /\ IsNil(err)
        /\ ~ IsNil(parsedData)
        /\ Len(Records) = Len(ParsedDoc.items)
        /\ Deref(parsedData).ItemCount = Len(Records)
        /\ \A i \in 1..Len(Records) :
              Records[i].Title = TrimSpace(ParsedDoc.items[i].Title)

\* C8: no tag of any record is empty or whitespace-only.
C8_NoBlankTags ==
    ~ IsNil(parsedData) =>
        \A i \in 1..Len(Records) :
            \A j \in 1..Len(Records[i].Tags) :
                TrimSpace(Records[i].Tags[j]) # <<>>

NonEmpty(s) == s # <<>>

\* the trimmed subjects, empty ones removed, order and duplicates kept
TrimmedNonEmpty(subjects) ==
    SelectSeq([j \in 1..Len(subjects) |-> TrimSpace(subjects[j])], NonEmpty)

\* C9: the tags of a record of the syndication dialect are the trimmed subjects
\* of its item with the empty ones removed, in order and with duplicates.
C9_RSSTagsAreTrimmedSubjects ==
    (~ IsNil(parsedData) /\ dialect = "rss2") =>
        \A i \in 1..Len(Records) :
            Records[i].Tags = TrimmedNonEmpty(ParsedDoc.items[i].Subjects)

\* subjects go, mcp, tools gave tags [go, mcp, tools]
C9_Witness ==
    /\ ~ IsNil(parsedData)
    /\ dialect = "rss2"
    /\ Len(Records) = 1
    /\ ParsedDoc.items[1].Subjects = <<Go, Mcp, Tools>>
    /\ Records[1].Tags = <<Go, Mcp, Tools>>

\* C10: a record of the resource-description dialect has the one tag that is
\* its item's trimmed subject when the subject is non-empty, and no tag when
\* the subject is empty.
C10_RDFTagIsTheSubject ==
    (~ IsNil(parsedData) /\ dialect = "rdf") =>
        \A i \in 1..Len(Records) :
            IF ParsedDoc.items[i].Subject # <<>>
            THEN Records[i].Tags = <<TrimSpace(ParsedDoc.items[i].Subject)>>
            ELSE Records[i].Tags = <<>>

\* subject programming gave tags [programming]
C10_Witness ==
    /\ ~ IsNil(parsedData)
    /\ dialect = "rdf"
    /\ Len(Records) = 1
    /\ ParsedDoc.items[1].Subject = Programming
    /\ Records[1].Tags = <<Programming>>

\* the text of the i-th item's description once tags are stripped and the
\* surrounding white space is trimmed
StrippedText(i) == TrimSpace(stripHTMLTags(ParsedDoc.items[i].Description))

\* C11 as stated: the comment of a syndication item is its stripped and trimmed
\* description, or empty when that text is longer than 500 characters.
C11_CommentLimitInCharacters ==
    (~ IsNil(parsedData) /\ dialect = "rss2") =>
        \A i \in 1..Len(Records) :
            Records[i].Comment =
                IF Len(StrippedText(i)) > MaxCommentLen THEN <<>> ELSE StrippedText(i)

\* C11, amended: the comment of a syndication item is its stripped and trimmed
\* description, or empty when that text is longer than 500 bytes of UTF-8.
C11_CommentLimitInBytes ==
    (~ IsNil(parsedData) /\ dialect = "rss2") =>
        \A i \in 1..Len(Records) :
            Records[i].Comment =
                IF ByteLen(StrippedText(i)) > MaxCommentLen THEN <<>> ELSE StrippedText(i)

\* "<b>hello</b> world" gave the comment "hello world"
C11_Witness ==
    /\ ~ IsNil(parsedData)
    /\ dialect = "rss2"
    /\ Len(Records) = 1
    /\ ParsedDoc.items[1].Description =
          <<"<","b",">","h","e","l","l","o","<","/","b",">"," ","w","o","r","l","d">>
    /\ Records[1].Comment = <<"h","e","l","l","o"," ","w","o","r","l","d">>

\* the characters a username may hold
UsernameChars == LowerChars \cup UpperChars \cup DigitChars \cup {"-"}

\* the error names the field username
NamesUsername(e) ==
    \/ "username" \in DOMAIN e.Details
    \/ ("field" \in DOMAIN e.Details /\ e.Details.field = "username")

\* C12 as stated: ValidateUsername accepts every username of 1 to 50 characters
\* from the set, and rejects every string holding a character outside the set
\* with a ValidationError that names the field username.
C12_UsernameRuleOnRawString ==
    pc = "ValidateUsername" =>
        /\ (/\ Len(params.Username) \in 1..MaxUsernameLen
            /\ Range(params.Username) \subseteq UsernameChars) => IsNil(err)
        /\ ~ (Range(params.Username) \subseteq UsernameChars) =>
              /\ Failed(ErrorCodeValidation)
              /\ NamesUsername(Deref(err))

\* C12, amended: ValidateUsername accepts a string exactly when, with its
\* surrounding white space trimmed, it has 1 to 50 characters all from the set;
\* every other string is rejected with a ValidationError that names the field
\* username.
C12_UsernameRuleOnTrimmedString ==
    pc = "ValidateUsername" =>
        LET username == TrimSpace(params.Username)
        IN  /\ IsNil(err) <=> (/\ ByteLen(username) \in 1..MaxUsernameLen
                               /\ Range(username) \subseteq UsernameChars)
            /\ ~ IsNil(err) =>
                  /\ Deref(err).Code = ErrorCodeValidation
                  /\ NamesUsername(Deref(err))

\* a padded username was accepted
C12_Witness ==
    /\ pc = "ValidateUsername"
    /\ params.Username = <<" ","a","b"," ">>
    /\ IsNil(err)

\* d is eight ASCII digits YYYYMMDD naming a day of the calendar, with the year
\* from 1900 to next year
CalendarDate(d) ==
    /\ Len(d) = 8
    /\ Range(d) \subseteq DigitChars
    /\ Atoi(SubSeq(d, 1, 4)) \in MinYear..(NowYear + 1)
    /\ Atoi(SubSeq(d, 5, 6)) \in 1..12
    /\ Atoi(SubSeq(d, 7, 8)) \in 1..31
    /\ Atoi(SubSeq(d, 7, 8)) <= DaysIn(Atoi(SubSeq(d, 5, 6)), Atoi(SubSeq(d, 1, 4)))

\* C13 as stated: ValidateDate accepts a string if and only if it is exactly
\* eight digits that name a calendar-valid date with the year in range.
C13_DateRuleOnRawString ==
    pc = "ValidateDate" =>
        /\ IsNil(err) <=> CalendarDate(params.Date)
        /\ ~ IsNil(err) => Deref(err).Code = ErrorCodeValidation

\* C13, amended: ValidateDate accepts a string if and only if, with its
\* surrounding white space trimmed, it is exactly eight digits that name a
\* calendar-valid date with the year in range.
C13_DateRuleOnTrimmedString ==
    pc = "ValidateDate" =>
        /\ IsNil(err) <=> CalendarDate(TrimSpace(params.Date))
        /\ ~ IsNil(err) => Deref(err).Code = ErrorCodeValidation

\* 30 February was rejected
C13_Witness ==
    /\ pc = "ValidateDate"
    /\ params.Date = <<"2","0","2","4","0","2","3","0">>
    /\ Failed(ErrorCodeValidation)

\* u parses as an absolute http or https URL with a host
AbsoluteHTTPURL(u) ==
    \E parsed \in {URLParse(u)} :
        /\ ~ parsed.err
        /\ parsed.Scheme \in {<<"h","t","t","p">>, <<"h","t","t","p","s">>}
        /\ parsed.Host # <<>>

TagInvalidChars == {"<", ">", "\"", "'", "&"}

\* C15: ValidateTag accepts a string if and only if it is at most 100
\* characters long and contains none of the characters < > " ' &.
C15_TagRuleInCharacters ==
    pc = "ValidateTag" =>
        IsNil(err) <=> (/\ Len(params.Tag) <= MaxTagLen
                        /\ \A i \in 1..Len(params.Tag) : params.Tag[i] \notin TagInvalidChars)

\* a tag of 34 three-byte characters was rejected
C15_Witness ==
    /\ pc = "ValidateTag"
    /\ Len(params.Tag) = 34
    /\ \A i \in 1..Len(params.Tag) : params.Tag[i] = KanaA
    /\ Failed(ErrorCodeValidation)

\* the pieces of s between the separators c
RECURSIVE SplitOn(_, _)
SplitOn(s, c) ==
    IF ~ ContainsChar(s, c) THEN <<s>>
    ELSE <<Upto(s, IndexOf(s, c) - 1)>> \o SplitOn(From(s, IndexOf(s, c)), c)

\* percent-decoding of a query value: "+" is a space, "%XY" the character of
\* code XY
RECURSIVE QueryUnescape(_)
QueryUnescape(s) ==
    IF s = <<>> THEN <<>>
    ELSE IF Head(s) = "+" THEN <<" ">> \o QueryUnescape(Tail(s))
    ELSE IF Head(s) = "%" /\ Len(s) >= 3
    THEN <<TheOne({ HexCodes[i][1] : i \in { j \in 1..Len(HexCodes) :
                        HexCodes[j][2] = s[2] /\ HexCodes[j][3] = s[3] } })>>
         \o QueryUnescape(From(s, 3))
    ELSE <<Head(s)>> \o QueryUnescape(Tail(s))

\* the <<key, decoded value>> pairs of a query string, in order
DecodeQuery(q) ==
    LET parts == SplitOn(q, "&")
    IN  [i \in 1..Len(parts) |->
            IF ContainsChar(parts[i], "=")
            THEN <<Upto(parts[i], IndexOf(parts[i], "=") - 1),
                   QueryUnescape(From(parts[i], IndexOf(parts[i], "=")))>>
            ELSE <<parts[i], <<>>>>]

\* the parameters the query of p must carry
ExpectedQuery(p) ==
    (IF p.Tag # <<>> THEN {<<<<"t","a","g">>, p.Tag>>} ELSE {}) \cup
    (IF p.Date # <<>> THEN {<<<<"d","a","t","e">>, p.Date>>} ELSE {}) \cup
    (IF p.URL # <<>> THEN {<<<<"u","r","l">>, p.URL>>} ELSE {}) \cup
    (IF p.Page > 1 THEN {<<<<"p","a","g","e">>, Itoa(p.Page)>>} ELSE {})

\* C16: the request URL is {root}/{username}/rss, followed by a query string
\* exactly when a filter is present or page > 1; the query carries exactly one
\* parameter for each present filter and page iff page > 1, and decoding the
\* values gives back the originals.
C16_RequestURLCarriesTheQuery ==
    requestURL # <<>> =>
        LET base == baseURL \o <<"/">> \o params.Username \o <<"/","r","s","s">>
        IN  IF ExpectedQuery(params) = {}
            THEN requestURL = base
            ELSE /\ HasPrefix(requestURL, base \o <<"?">>)
                 /\ \E pairs \in {DecodeQuery(From(requestURL, Len(base) + 1))} :
                        /\ Len(pairs) = Cardinality(ExpectedQuery(params))
                        /\ {pairs[i] : i \in 1..Len(pairs)} = ExpectedQuery(params)

\* a URL was built for a tag with reserved characters, a date, a URL and page 2
C16_Witness ==
    /\ requestURL # <<>>
    /\ params.Tag = <<"a","&","b","=","c"," ","%","+">>
    /\ params.Date # <<>>
    /\ params.URL # <<>>
    /\ params.Page = 2

\* C17: fetchRSSFeed returns the body only for a response with status 200
\* whose body was read completely; a transport failure is a NetworkError, a
\* response with another status an APIError carrying that status and no body,
\* a failed read after a 200 a NetworkError.
C17_FetchClassifiesOutcome ==
    [][\A o \in HTTPOutcomes :
          (pc = "await" /\ FetchReturn(o)) =>
              IF o.kind = "transport"
              THEN IsNil(xmlContent') /\ ~ IsNil(err') /\ Deref(err').Code = ErrorCodeNetwork
              ELSE IF o.status # StatusOK
              THEN /\ IsNil(xmlContent')
                   /\ ~ IsNil(err')
                   /\ Deref(err').Code = ErrorCodeAPI
                   /\ Deref(err').Details.status_code = o.status
              ELSE IF o.readErr
              THEN IsNil(xmlContent') /\ ~ IsNil(err') /\ Deref(err').Code = ErrorCodeNetwork
              ELSE xmlContent' = Ptr(o.body) /\ IsNil(err')]_vars

\* a response with status 404 became an APIError carrying 404, without a body
C17_Witness ==
    /\ pc = "return"
    /\ Failed(ErrorCodeAPI)
    /\ Deref(err).Details.status_code = 404
    /\ IsNil(xmlContent)

\* C18: the response echoes the query's username, has page equal to the
\* query's page if it is >= 1 and 1 otherwise, total_count equal to the number
\* of bookmarks, and a filters object if and only if at least one of tag, date
\* and url was supplied; a filters object is never empty.
C18_ResponseEchoesTheQuery ==
    ~ IsNil(response) =>
        \E r \in {Deref(response)} :
            /\ r.User = params.Username
            /\ r.Page = IF params.Page >= 1 THEN params.Page ELSE 1
            /\ r.TotalCount = Len(r.Bookmarks)
            /\ r.Bookmarks = Deref(parsedData).Items
            /\ ~ IsNil(r.Filters) <=>
                   (params.Tag # <<>> \/ params.Date # <<>> \/ params.URL # <<>>)
            /\ ~ IsNil(r.Filters) =>
                   /\ Deref(r.Filters) = [Tag |-> params.Tag, Date |-> params.Date, URL |-> params.URL]
                   /\ \E f \in {"Tag", "Date", "URL"} : Deref(r.Filters)[f] # <<>>

\* a response for page 0 with a tag filter and two bookmarks
C18_Witness ==
    /\ ~ IsNil(response)
    /\ params.Page = 0
    /\ Deref(response).Page = 1
    /\ params.Tag # <<>>
    /\ ~ IsNil(Deref(response).Filters)
    /\ Deref(response).TotalCount = 2

\* a response without filters
C18_WitnessNoFilters ==
    /\ ~ IsNil(response)
    /\ IsNil(Deref(response).Filters)
    /\ Deref(response).Page = 2

\* C19: Get(k) returns the value of the most recent Set(k, .) when it comes
\* immediately after it, and as long as the TTL has not elapsed since; once the
\* TTL has elapsed it returns absent, whether or not a sweep has run; a key
\* that was never set, or was removed by Delete or Clear, is absent.
C19_GetServesLastSetUntilExpiry ==
    [][\A q \in CacheParamsIn :
          Get(GenerateCacheKey(q)) =>
              \E k \in {GenerateCacheKey(q)}, r \in {Deref(got')} :
                  /\ r.ok <=> (k \in DOMAIN lastSet /\ now <= lastSet[k].At + TTL)
                  /\ r.ok => r.data = lastSet[k].Data
                  /\ ~ r.ok => IsNil(r.data)]_vars

\* a Get just found absent an entry that is still in the map, unswept, after
\* its TTL
C19_Witness ==
    /\ ~ IsNil(got)
    /\ ~ Deref(got).ok
    /\ Deref(got).at = now
    /\ Deref(got).key \in DOMAIN entries
    /\ now > entries[Deref(got).key].ExpiresAt

\* a Get returned the value of a Set made at the same instant
C19_WitnessFresh ==
    /\ ~ IsNil(got)
    /\ Deref(got).ok
    /\ Deref(got).at = now
    /\ Deref(got).key \in DOMAIN lastSet
    /\ lastSet[Deref(got).key].At = now
    /\ Deref(got).data = lastSet[Deref(got).key].Data

\* C20: two queries that differ in username, tag, date, url or page never
\* have the same cache key.
C20_CacheKeyInjective ==
    (pc = "cache" /\ ~ IsNil(got)) =>
        \A q \in CacheParamsIn :
            q # params => GenerateCacheKey(q) # GenerateCacheKey(params)

\* a lookup succeeded under a key that two different queries share
C20_Witness ==
    /\ pc = "cache"
    /\ ~ IsNil(got)
    /\ Deref(got).ok
    /\ Deref(got).key = GenerateCacheKey(params)
    /\ params.Date = <<>>
    /\ \E q \in CacheParamsIn : q.Date # <<>> /\ GenerateCacheKey(q) = Deref(got).key

\* the methods that write the map
WriterOps == {"Set", "Delete", "Clear", "cleanup"}

\* C21: any number of readers (Get, Size) may be inside the cache together,
\* but a writer (Set, Delete, Clear, a pass of the sweep) is never inside
\* together with another reader or writer; the mutex is held exactly by those
\* inside, so whoever is inside can finish, and when nobody is inside every
\* method can be entered: no interleaving deadlocks.
C21_ReadersShareWritersExclude ==
    pc = "cache" =>
        /\ \A g \in Goroutines :
               (~ IsNil(inside[g]) /\ Deref(inside[g]).op \in WriterOps) =>
                   \A h \in Goroutines \ {g} : IsNil(inside[h])
        /\ mutex.writer <=>
               \E g \in Goroutines : ~ IsNil(inside[g]) /\ Deref(inside[g]).op \in WriterOps
        /\ mutex.readers =
               Cardinality({g \in Goroutines :
                                ~ IsNil(inside[g]) /\ Deref(inside[g]).op \notin WriterOps})
        /\ \A g \in Goroutines : ~ IsNil(inside[g]) => ENABLED Exit(g)
        /\ (\A g \in Goroutines : IsNil(inside[g])) =>
               /\ ENABLED Enter("cleanup", [op |-> "cleanup", q |-> NoParams, data |-> NilPtr])
               /\ \A op \in {"Get", "Size", "Set", "Delete", "Clear"} :
                      ENABLED Enter("request1", [op |-> op, q |-> NoParams, data |-> NilPtr])

\* two readers are inside the cache at the same time
C21_Witness ==
    /\ ~ IsNil(inside["request1"])
    /\ ~ IsNil(inside["request2"])
    /\ Deref(inside["request1"]).op = "Get"
    /\ Deref(inside["request2"]).op = "Size"
    /\ mutex.readers = 2

\* C22: no more than one request per second goes upstream for the same
\* user: a GET for a user is sent at least one second after the last GET for
\* that user.
C22_OneUpstreamRequestPerSecond ==
    [][(/\ httpGets' = httpGets + 1
        /\ ~ IsNil(lastGet)
        /\ Deref(lastGet).Username = params.Username)
           => now >= Deref(lastGet).at + 1]_vars

\* C25: no GET is sent for a query that succeeded less than five minutes
\* ago; such a call is answered from the cache.
C25_RepeatedQueryNotFetchedAgain ==
    [][(/\ httpGets' = httpGets + 1
        /\ ~ IsNil(lastOK)
        /\ Deref(lastOK).params = params)
           => now >= Deref(lastOK).at + FiveMinutes]_vars

\* the keys whose entry is stored and has expired
Expired(es, clock) == {k \in DOMAIN es : clock > es[k].ExpiresAt}

\* C23 as stated: after a Get of an expired key the entry is no longer stored.
C23_GetRemovesExpiredEntry ==
    [][\A q \in CacheParamsIn :
          (Get(GenerateCacheKey(q)) /\ GenerateCacheKey(q) \in Expired(entries, now))
              => GenerateCacheKey(q) \notin DOMAIN entries']_vars

\* C23, amended: a Get never changes what is stored, also when it finds the
\* entry expired and reports it absent; a pass of the sweep leaves no expired
\* entry behind.
C23_OnlyTheSweepRemovesExpired ==
    [][/\ \A q \in CacheParamsIn : Get(GenerateCacheKey(q)) => entries' = entries
       /\ cleanup => Expired(entries', now) = {}]_vars

\* a Get has just reported an expired entry absent, and the entry is still
\* stored with its data
C23_Witness ==
    /\ pc = "cache"
    /\ ~ IsNil(got)
    /\ Deref(got).at = now
    /\ ~ Deref(got).ok
    /\ Deref(got).key \in Expired(entries, now)
    /\ entries[Deref(got).key].Data \in CacheDataIn

\* C24: an entry whose expiry time has passed is eventually removed by the
\* sweep (unless a Set, Delete or Clear deals with it first), also when its key
\* is never looked up again; a pass of the sweep removes no entry that has not
\* expired, and changes none.
C24_SweepRemovesExpiredOnly ==
    /\ [][cleanup => \A k \in DOMAIN entries \ Expired(entries, now) :
                         k \in DOMAIN entries' /\ entries'[k] = entries[k]]_vars
    /\ \A k \in {GenerateCacheKey(q) : q \in CacheParamsIn} :
           (k \in Expired(entries, now)) ~> (k \notin Expired(entries, now))

\* the sweep has removed an entry nobody deleted, and kept one that has not
\* expired
C24_Witness ==
    /\ pc = "cache"
    /\ DOMAIN lastSet \ DOMAIN entries # {}
    /\ DOMAIN entries \ Expired(entries, now) # {}

\* C26: every URL that is fetched is {service-root}/{username}/rss[?query]
\* with a non-empty username of ASCII letters, digits and hyphens; its scheme
\* and host are those of the service root.
C26_FetchedURLKeepsHostAndPath ==
    httpGets > 0 =>
        /\ params.Username # <<>>
        /\ \A i \in 1..Len(params.Username) : params.Username[i] \in UsernameChars
        /\ \E base \in {baseURL \o <<"/">> \o params.Username \o <<"/","r","s","s">>} :
               /\ HasPrefix(requestURL, base)
               /\ requestURL = base \/ requestURL[Len(base) + 1] = "?"
        /\ \E parsed \in {URLParse(requestURL)}, root \in {URLParse(baseURL)} :
               /\ ~ parsed.err
               /\ parsed.Scheme = root.Scheme
               /\ parsed.Host = root.Host

\* a GET is under way for the user a-1
C26_Witness ==
    /\ pc = "await"
    /\ httpGets = 1
    /\ params.Username = <<"a","-","1">>
    /\ params.Tag # <<>>

\* the document with the date of every item replaced by d
WithDates(doc, d) ==
    [doc EXCEPT !.items =
        [i \in 1..Len(doc.items) |->
            IF "Date" \in DOMAIN doc.items[i]
            THEN [doc.items[i] EXCEPT !.Date = d]
            ELSE [doc.items[i] EXCEPT !.PubDate = d]]]

\* the warnings about a date that could not be parsed
DateWarnings == {WarnDate, WarnPubDate, WarnRDFDate}

\* C27: in both dialects an item with an empty date gets the time of the
\* parse and no warning about its date is logged; an item whose non-empty
\* date matches no layout gets the time of the parse and the warnings are
\* logged; the dates never decide whether an error leaves the parser.
C27_EmptyDateSilentBadDateWarned ==
    [][Parse =>
          /\ IsNil(err') <=> IsNil(ParseRSSFeed(WithDates(ParsedDoc, GoodDate), now).err)
          /\ ~ IsNil(parsedData') =>
                \E recs \in {Deref(parsedData').Items} :
                    LET src(i) == IF dialect' = "rdf" THEN ParsedDoc.items[i].Date
                                                      ELSE ParsedDoc.items[i].PubDate
                        bad == {i \in 1..Len(recs) : Unparseable(src(i), dialect')}
                    IN  /\ IsNil(err')
                        /\ Len(recs) = Len(ParsedDoc.items)
                        /\ \A i \in 1..Len(recs) :
                               (src(i) = EmptyDate \/ i \in bad) =>
                                   recs[i].BookmarkedAt = NowRFC3339(now)
                        /\ log' \cap DateWarnings =
                               IF bad = {} THEN {}
                               ELSE IF dialect' = "rdf" THEN {WarnDate, WarnRDFDate}
                               ELSE {WarnDate, WarnPubDate}]_vars

\* a feed whose only item has an empty date was parsed after the clock had
\* moved, and nothing was logged about dates
C27_Witness ==
    /\ ~ IsNil(parsedData)
    /\ Len(Records) = 1
    /\ SourceDate(1) = EmptyDate
    /\ Records[1].BookmarkedAt.t > 0
    /\ log \cap DateWarnings = {}

\* the query of the call with page 0 and page 1 exchanged
PageTwin == [params EXCEPT !.Page = 1 - params.Page]

\* C28: two queries that differ only in that one has page 0 and the other
\* page 1 are the same request (the same URL is fetched, the response reports
\* page 1 for both), but GenerateCacheKey gives them different keys: the key
\* of page 1 is the key of page 0 followed by the page component.
C28_PageZeroAndOneSameRequestOtherKey ==
    (params.Page \in {0, 1} /\ requestURL # <<>>) =>
        /\ requestURL = buildRequestURL(PageTwin)
        /\ ~ IsNil(response) =>
               /\ Deref(response).Page = 1
               /\ Deref(response) = buildResponse(PageTwin, Deref(parsedData))
        /\ GenerateCacheKey(params) # GenerateCacheKey(PageTwin)
        /\ GenerateCacheKey([params EXCEPT !.Page = 1]) =
               GenerateCacheKey([params EXCEPT !.Page = 0])
                   \o <<"_","p","a","g","e",":", RuneString(1)>>

\* a call with page 1 and a date filter has been answered
C28_Witness ==
    /\ params.Page = 1
    /\ params.Date # <<>>
    /\ requestURL # <<>>
    /\ ~ IsNil(response)

\* C29: Set(k, v) and Delete(k) leave the value and the expiry time of every
\* other key as they were; Set on a key that is already stored replaces its
\* value and restarts its TTL from the time of that Set: the entry is served
\* until TTL after the latest Set, and no longer.
C29_WritesTouchOnlyTheirKey ==
    [][\A q \in CacheParamsIn :
          \E k \in {GenerateCacheKey(q)} :
              /\ \A d \in CacheDataIn :
                     Set(k, d) =>
                         /\ DOMAIN entries' = DOMAIN entries \cup {k}
                         /\ \A o \in DOMAIN entries \ {k} : entries'[o] = entries[o]
                         /\ entries'[k] = [Data |-> d, ExpiresAt |-> now + TTL]
                         /\ \A t \in now..(MaxTime + TTL + 1) :
                                CacheGet(entries', k, t) =
                                    IF t <= now + TTL THEN [data |-> d, ok |-> TRUE]
                                    ELSE [data |-> NilPtr, ok |-> FALSE]
              /\ Delete(k) =>
                     /\ DOMAIN entries' = DOMAIN entries \ {k}
                     /\ \A o \in DOMAIN entries' : entries'[o] = entries[o]
                     /\ ~ CacheGet(entries', k, now).ok]_vars

\* a key that a Get had found stored earlier has been set again now, at a
\* time when its first TTL is over, and is fresh, next to another key whose
\* older expiry time is as it was
C29_Witness ==
    /\ ~ IsNil(got)
    /\ Deref(got).ok
    /\ Deref(got).key \in DOMAIN entries
    /\ Deref(got).at + TTL < now
    /\ lastSet[Deref(got).key].At = now
    /\ entries[Deref(got).key].ExpiresAt = now + TTL
    /\ \E o \in DOMAIN entries \ {Deref(got).key} :
           /\ lastSet[o].At < now
           /\ entries[o].ExpiresAt = lastSet[o].At + TTL

============================================================================
